---- MODULE Spec2Model ----
(***************************************************************************)
(* Verification model of the LLM API gateway (dyingc/oca_langchain).       *)
(*                                                                         *)
(*  SpecValidate : the tool-call sequence validator of core/llm.py,        *)
(*                 one action per loop iteration of                        *)
(*                 _validate_tool_call_sequences, run twice in a row       *)
(*                 (the second call takes the first call's result).        *)
(*  SpecToken    : the OAuth2 token manager of core/oauth2_token_manager.py*)
(*                 called by concurrent threads: get_access_token with     *)
(*                 _refresh_tokens, request and async_stream_request, one  *)
(*                 action per step between two blocking I/O operations.    *)
(*  SpecStream   : one request served from one upstream stream: the        *)
(*                 upstream client of core/llm.py (_stream/_astream and    *)
(*                 _generate) and the emitters of anthropic_api.py,        *)
(*                 responses_api.py and api.py, one action per chunk.      *)
(*  SpecGateway  : client requests arriving at the handlers of api.py,     *)
(*                 anthropic_api.py, responses_api.py and                  *)
(*                 responses_passthrough.py, which share one chat model,   *)
(*                 while the configuration file is edited; one action per  *)
(*                 step between two suspension points of a handler.        *)
(*  SpecConvert  : one request's input converted by                        *)
(*                 converters/responses_converter.py or                    *)
(*                 converters/anthropic_request_converter.py and passed    *)
(*                 through the validator of SpecValidate.                  *)
(***************************************************************************)
EXTENDS Integers, Sequences, FiniteSets, TLC

(***************************************************************************)
(* Bounds of the model.                                                    *)
(***************************************************************************)
MaxLen == 4
MaxToolCalls == 2
NumCallers == 2
MaxIssued == 2
MaxTicks == 1
MaxCalls == 2
MaxLines == 1
MaxDeltas == 3
NumRequests == 2
MaxEdits == 1
MaxItems == 4
MaxHistory == 3

(***************************************************************************)
(* Canonical messages (LangChain BaseMessage objects).                     *)
(* A tool call is represented by its id: the validator reads nothing else  *)
(* of a tool-call record.  "" is the falsy id (absent or empty).           *)
(***************************************************************************)
NoId == ""
ToolCallIds == {NoId, "a", "b"}

Range(f) == {f[x] : x \in DOMAIN f}

ToolCallLists == UNION {[1..n -> ToolCallIds] : n \in 1..MaxToolCalls}

HumanMessage(c) == [type |-> "human", content |-> c, tool_calls |-> <<>>, tool_call_id |-> NoId]
SystemMessage(c) == [type |-> "system", content |-> c, tool_calls |-> <<>>, tool_call_id |-> NoId]
AIMessage(c, tcs) == [type |-> "ai", content |-> c, tool_calls |-> tcs, tool_call_id |-> NoId]
ToolMessage(c, id) == [type |-> "tool", content |-> c, tool_calls |-> <<>>, tool_call_id |-> id]

BaseMessage ==
    {HumanMessage("u"), SystemMessage("s"), AIMessage("t", <<>>)}
        \cup {AIMessage("t", tcs) : tcs \in ToolCallLists}
        \cup {ToolMessage("r", id) : id \in ToolCallIds}

MessageLists == UNION {[1..n -> BaseMessage] : n \in 0..MaxLen}

VARIABLES
    messages,            \* the argument of the current call, as passed
    objects,             \* the caller's message objects (mutated in place)
    remaining_messages,
    valid_messages,
    temp,
    temp_2,
    remaining_ids,
    ai_index,            \* which object of the argument temp[0] refers to
    vpc,                 \* position in _validate_tool_call_sequences
    ncall                \* 1: first call, 2: call on the first call's result

vvars == <<messages, objects, remaining_messages, valid_messages, temp, temp_2,
           remaining_ids, ai_index, vpc, ncall>>

VARIABLES
    access_token,        \* self.access_token (NoToken: None)
    expires_at,          \* self.expires_at (NoTime: None)
    connection_mode,     \* self.connection_mode
    proxy_url,           \* self.proxy_url: TRUE when HTTP_PROXY_URL is set
    force_proxy,         \* FORCE_PROXY of the configuration file
    dotenv,              \* the token fields of the configuration file
    now,                 \* datetime.now(timezone.utc), in seconds
    issued,              \* tokens the token endpoint has issued so far
    ncalls,              \* calls of the token manager made so far
    call                 \* per thread: the call it is in and its local variables

tvars == <<access_token, expires_at, connection_mode, proxy_url, force_proxy,
           dotenv, now, issued, ncalls, call>>

VARIABLES
    endpoint,            \* the operation serving the request
    upstream,            \* the deltas of the upstream SSE stream, in order
    pos,                 \* number of upstream deltas read so far
    spc,                 \* position of the serving code
    failed,              \* the upstream call has raised
    events,              \* what has been yielded to the client, in order
    full_response_content, tool_builders, order,        \* _generate
    content_buffer, block_index, text_block_started,    \* anthropic_stream_generator
    text_block_has_content, tool_states, stop_reason,
    _response_store,     \* responses_api._response_store: response id -> response
    store_before,        \* _response_store when the request arrived
    request_store,       \* request.store
    api_response         \* what a non-streaming operation returned

svars == <<endpoint, upstream, pos, spc, failed, events,
           full_response_content, tool_builders, order,
           content_buffer, block_index, text_block_started,
           text_block_has_content, tool_states, stop_reason,
           _response_store, store_before, request_store, api_response>>

\* svars without the response store
sserve == <<endpoint, upstream, pos, spc, failed, events,
            full_response_content, tool_builders, order,
            content_buffer, block_index, text_block_started,
            text_block_has_content, tool_states, stop_reason,
            store_before, request_store, api_response>>

VARIABLES
    env_file,            \* the configuration file src/.env: key -> value
    environ,             \* os.environ of the gateway process: key -> value
    chat_model,          \* lifespan_objects["chat_model"]: model, temperature
    reqs,                \* the client requests, by arrival number
    edits                \* number of changes made to the configuration file

gvars == <<env_file, environ, chat_model, reqs, edits>>

VARIABLES
    dialect,             \* the API dialect of the request being converted
    input_data,          \* request.input of a Responses request: its items
    anthropic_messages   \* request.messages of an Anthropic request

cvars == <<dialect, input_data, anthropic_messages>>

vars == <<vvars, tvars, svars, gvars, cvars>>

(***************************************************************************)
(* _calculate_message_weight                                               *)
(***************************************************************************)
_calculate_message_weight(msg) ==
    IF msg.type = "tool" THEN -1
    ELSE IF msg.type = "ai"
         THEN IF Len(msg.tool_calls) > 0 THEN Len(msg.tool_calls) ELSE 0
         ELSE 0

\* remaining_ids as collected from the tool calls: falsy ids are skipped
CollectIds(tool_calls) == {id \in Range(tool_calls) : id # NoId}

\* mutant of MatchedToolCalls: only the first unmatched tool call is removed
RECURSIVE MatchedToolCalls_FirstOnly(_, _)
MatchedToolCalls_FirstOnly(tool_calls, ids) ==
    IF tool_calls = <<>> THEN <<>>
    ELSE IF Head(tool_calls) \in ids
         THEN Tail(tool_calls)
         ELSE <<Head(tool_calls)>> \o MatchedToolCalls_FirstOnly(Tail(tool_calls), ids)

\* matched_tool_calls: the tool calls whose id is not in remaining_ids
RECURSIVE MatchedToolCalls(_, _)
MatchedToolCalls(tool_calls, ids) ==
    IF tool_calls = <<>> THEN <<>>
    ELSE IF Head(tool_calls) \notin ids
         THEN <<Head(tool_calls)>> \o MatchedToolCalls(Tail(tool_calls), ids)
         ELSE MatchedToolCalls(Tail(tool_calls), ids)

\* the AI message of an incomplete sequence, as it is put back into temp[0]
CleanAIMessage(ai_msg, ids) ==
    IF MatchedToolCalls(ai_msg.tool_calls, ids) # <<>>
    THEN [ai_msg EXCEPT !.tool_calls = MatchedToolCalls(ai_msg.tool_calls, ids)]
    ELSE AIMessage(ai_msg.content, <<>>)

(***************************************************************************)
(* Token manager: values.                                                  *)
(* An access token is the number of the refresh that issued it; a refresh  *)
(* token is 1 (the one configured at start) or 1 + the number of the       *)
(* refresh that rotated it in.                                             *)
(***************************************************************************)
Callers == 1..NumCallers

NoToken == 0
NoTime == -1
InitialRefreshToken == 1

\* timedelta(seconds=expires_in - 60)
SafetyMargin == 60

\* seconds that pass in one step of the clock
TickSeconds == 120

\* the expires_in values the token endpoint answers with
ExpiresIn == {60, 180}

NoResponse == [access_token |-> NoToken, expires_in |-> 0, refresh_token |-> NoToken]

NoFile == [access_token |-> NoToken, expires_at |-> NoTime, refresh_token |-> NoToken]

\* a thread that is in no call of the token manager
IdleCall ==
    [pc |-> "idle", op |-> "none", do_retry |-> FALSE,
     primary_mode |-> "direct", secondary_mode |-> "direct",
     current_refresh_token |-> NoToken, response |-> NoResponse,
     attempts |-> <<>>, first_error |-> "none", mode_set |-> "none",
     result |-> "none", token |-> NoToken, opens |-> 0, lines |-> 0,
     file_before |-> NoFile, file_new |-> NoFile]

\* the token manager while the validator runs: constructed, no call made
TQuiet ==
    /\ access_token = NoToken
    /\ expires_at = NoTime
    /\ connection_mode = "direct"
    /\ proxy_url = FALSE
    /\ force_proxy = FALSE
    /\ dotenv = [NoFile EXCEPT !.refresh_token = InitialRefreshToken]
    /\ now = 0
    /\ issued = 0
    /\ ncalls = 0
    /\ call = [c \in Callers |-> IdleCall]

\* the validator while the token manager runs: no call in progress
VQuiet ==
    /\ messages = <<>>
    /\ objects = <<>>
    /\ remaining_messages = <<>>
    /\ valid_messages = <<>>
    /\ temp = <<>>
    /\ temp_2 = <<>>
    /\ remaining_ids = {}
    /\ ai_index = 0
    /\ vpc = "done"
    /\ ncall = 2

\* the converters while no request is converted
CQuiet ==
    /\ dialect = "none"
    /\ input_data = <<>>
    /\ anthropic_messages = <<>>

\* the request handlers while no client request has arrived
GQuiet ==
    /\ env_file = <<>>
    /\ environ = <<>>
    /\ chat_model = <<>>
    /\ reqs = <<>>
    /\ edits = 0

\* the gateway while no request is served
SIdle ==
    /\ endpoint = "none"
    /\ upstream = <<>>
    /\ pos = 0
    /\ spc = "done"
    /\ failed = FALSE
    /\ events = <<>>
    /\ full_response_content = <<>>
    /\ tool_builders = <<>>
    /\ order = <<>>
    /\ content_buffer = <<>>
    /\ block_index = 0
    /\ text_block_started = FALSE
    /\ text_block_has_content = FALSE
    /\ tool_states = <<>>
    /\ stop_reason = "end_turn"
    /\ store_before = <<>>
    /\ request_store = FALSE
    /\ api_response = "none"

SQuiet == SIdle /\ _response_store = <<>>

(***************************************************************************)
(* _validate_tool_call_sequences, one action per loop iteration            *)
(***************************************************************************)
VInit ==
    /\ messages \in MessageLists
    /\ objects = messages
    /\ remaining_messages = messages
    /\ valid_messages = <<>>
    /\ temp = <<>>
    /\ temp_2 = <<>>
    /\ remaining_ids = {}
    /\ ai_index = 0
    /\ vpc = "outer"
    /\ ncall = 1
    /\ TQuiet
    /\ SQuiet
    /\ GQuiet
    /\ CQuiet

\* outer loop, weight 0: clean message, appended to valid_messages
PopClean ==
    /\ vpc = "outer"
    /\ remaining_messages # <<>>
    /\ _calculate_message_weight(Head(remaining_messages)) = 0
    /\ valid_messages' = Append(valid_messages, Head(remaining_messages))
    /\ remaining_messages' = Tail(remaining_messages)
    /\ UNCHANGED <<cvars, gvars, tvars, svars, messages, objects, temp, temp_2, remaining_ids, ai_index, vpc, ncall>>

\* outer loop, weight -1: orphaned tool message, discarded
PopOrphan ==
    /\ vpc = "outer"
    /\ remaining_messages # <<>>
    /\ _calculate_message_weight(Head(remaining_messages)) = -1
    /\ remaining_messages' = Tail(remaining_messages)
    /\ UNCHANGED <<cvars, gvars, tvars, svars, messages, objects, valid_messages, temp, temp_2, remaining_ids,
                   ai_index, vpc, ncall>>

\* outer loop, weight > 0: start collecting a tool call sequence
PopToolCalls ==
    /\ vpc = "outer"
    /\ remaining_messages # <<>>
    /\ _calculate_message_weight(Head(remaining_messages)) > 0
    /\ temp' = <<Head(remaining_messages)>>
    /\ ai_index' = Len(messages) - Len(remaining_messages) + 1
    /\ remaining_ids' = CollectIds(Head(remaining_messages).tool_calls)
    /\ temp_2' = <<>>
    /\ remaining_messages' = Tail(remaining_messages)
    /\ vpc' = "collect"
    /\ UNCHANGED <<cvars, gvars, tvars, svars, messages, objects, valid_messages, ncall>>

\* inner loop, next message is a tool message: matched or discarded
CollectTool ==
    /\ vpc = "collect"
    /\ remaining_ids # {}
    /\ remaining_messages # <<>>
    /\ _calculate_message_weight(Head(remaining_messages)) = -1
    /\ LET next_msg == Head(remaining_messages) IN
         IF next_msg.tool_call_id \in remaining_ids
         THEN /\ temp' = Append(temp, next_msg)
              /\ remaining_ids' = remaining_ids \ {next_msg.tool_call_id}
         ELSE UNCHANGED <<temp, remaining_ids>>
    /\ remaining_messages' = Tail(remaining_messages)
    /\ UNCHANGED <<cvars, gvars, tvars, svars, messages, objects, valid_messages, temp_2, ai_index, vpc, ncall>>

\* mutant of CollectInterrupt: the interrupting message is not delayed
CollectInterrupt_Drops ==
    /\ vpc = "collect"
    /\ remaining_ids # {}
    /\ remaining_messages # <<>>
    /\ _calculate_message_weight(Head(remaining_messages)) >= 0
    /\ remaining_messages' = Tail(remaining_messages)
    /\ vpc' = "result"
    /\ UNCHANGED <<cvars, gvars, tvars, svars, messages, objects, valid_messages, temp, temp_2, remaining_ids, ai_index, ncall>>

\* inner loop, next message has weight >= 0: delayed, and the loop is left
CollectInterrupt ==
    /\ vpc = "collect"
    /\ remaining_ids # {}
    /\ remaining_messages # <<>>
    /\ _calculate_message_weight(Head(remaining_messages)) >= 0
    /\ temp_2' = Append(temp_2, Head(remaining_messages))
    /\ remaining_messages' = Tail(remaining_messages)
    /\ vpc' = "result"
    /\ UNCHANGED <<cvars, gvars, tvars, svars, messages, objects, valid_messages, temp, remaining_ids, ai_index, ncall>>

\* the inner loop's condition fails
CollectEnd ==
    /\ vpc = "collect"
    /\ (remaining_ids = {} \/ remaining_messages = <<>>)
    /\ vpc' = "result"
    /\ UNCHANGED <<cvars, gvars, tvars, svars, messages, objects, remaining_messages, valid_messages, temp, temp_2,
                   remaining_ids, ai_index, ncall>>

\* sequence validation result: complete sequence
SequenceComplete ==
    /\ vpc = "result"
    /\ remaining_ids = {}
    /\ valid_messages' = valid_messages \o temp
    /\ remaining_messages' = temp_2 \o remaining_messages
    /\ vpc' = "outer"
    /\ UNCHANGED <<cvars, gvars, tvars, svars, messages, objects, temp, temp_2, remaining_ids, ai_index, ncall>>

\* sequence validation result: incomplete sequence; the matched tool calls
\* are assigned to the AI message object itself, a message without any
\* matched tool call is replaced by a new clean AIMessage
SequenceIncomplete ==
    /\ vpc = "result"
    /\ remaining_ids # {}
    /\ LET ai_msg == CleanAIMessage(temp[1], remaining_ids) IN
         /\ temp' = [temp EXCEPT ![1] = ai_msg]
         /\ valid_messages' = valid_messages \o [temp EXCEPT ![1] = ai_msg]
         /\ objects' = IF ai_msg.tool_calls # <<>>
                       THEN [objects EXCEPT ![ai_index] = ai_msg]
                       ELSE objects
    /\ remaining_messages' = temp_2 \o remaining_messages
    /\ vpc' = "outer"
    /\ UNCHANGED <<cvars, gvars, tvars, svars, messages, temp_2, remaining_ids, ai_index, ncall>>

\* the outer loop's condition fails: return valid_messages
Return ==
    /\ vpc = "outer"
    /\ remaining_messages = <<>>
    /\ vpc' = "done"
    /\ UNCHANGED <<cvars, gvars, tvars, svars, messages, objects, remaining_messages, valid_messages, temp, temp_2,
                   remaining_ids, ai_index, ncall>>

\* the validator is called again on the list it returned
Revalidate ==
    /\ vpc = "done"
    /\ ncall = 1
    /\ messages' = valid_messages
    /\ objects' = valid_messages
    /\ remaining_messages' = valid_messages
    /\ valid_messages' = <<>>
    /\ temp' = <<>>
    /\ temp_2' = <<>>
    /\ remaining_ids' = {}
    /\ ai_index' = 0
    /\ vpc' = "outer"
    /\ ncall' = 2
    /\ UNCHANGED <<cvars, gvars, tvars, svars>>

VNext ==
    \/ PopClean
    \/ PopOrphan
    \/ PopToolCalls
    \/ CollectTool
    \/ CollectInterrupt
    \/ CollectEnd
    \/ SequenceComplete
    \/ SequenceIncomplete
    \/ Return
    \/ Revalidate

SpecValidate == VInit /\ [][VNext]_vars

(***************************************************************************)
(* Token manager: operations (core/oauth2_token_manager.py).               *)
(***************************************************************************)
TInit ==
    /\ access_token = NoToken
    /\ expires_at = NoTime
    /\ proxy_url \in BOOLEAN
    /\ force_proxy \in BOOLEAN
    /\ connection_mode = IF force_proxy THEN "proxy" ELSE "direct"
    /\ dotenv \in {[NoFile EXCEPT !.refresh_token = rt] : rt \in {NoToken, InitialRefreshToken}}
    /\ now = 0
    /\ issued = 0
    /\ ncalls = 0
    /\ call = [c \in Callers |-> IdleCall]
    /\ VQuiet
    /\ SQuiet
    /\ GQuiet
    /\ CQuiet

\* mutant of SecondaryMode: the retry stays in the mode that just failed
SecondaryMode_Same(primary_mode) == primary_mode

\* secondary_mode = PROXY if primary_mode == DIRECT else DIRECT
SecondaryMode(primary_mode) == IF primary_mode = "direct" THEN "proxy" ELSE "direct"

\* _get_proxies(mode) is not None
ProxiesAvailable(mode) == mode = "direct" \/ proxy_url

\* _refresh_tokens calls request with _do_retry=False
RefreshDoRetry == FALSE

\* the exception classes a failed attempt is caught as:
\* requests.exceptions.RequestException covers HTTPError (raise_for_status),
\* httpx.RequestError does not cover httpx.HTTPStatusError
Caught(op, error) == error = "transport" \/ op # "stream"

\* a call has ended: the thread holds its outcome until it goes on
Ended(cl, result, token) == [cl EXCEPT !.pc = "done", !.result = result, !.token = token]

\* get_access_token: the cached token is present and not expired
GetAccessTokenCached(c) ==
    /\ call[c].pc = "idle"
    /\ ncalls < MaxCalls
    /\ ncalls' = ncalls + 1
    /\ access_token # NoToken /\ expires_at # NoTime /\ now < expires_at
    /\ call' = [call EXCEPT ![c] =
                   Ended([@ EXCEPT !.op = "get_access_token"], "ok", access_token)]
    /\ UNCHANGED <<cvars, gvars, vvars, svars, access_token, expires_at, connection_mode, proxy_url,
                   force_proxy, dotenv, now, issued>>

\* get_access_token: no valid cached token, the refresh process starts
GetAccessTokenExpired(c) ==
    /\ call[c].pc = "idle"
    /\ ncalls < MaxCalls
    /\ ncalls' = ncalls + 1
    /\ ~(access_token # NoToken /\ expires_at # NoTime /\ now < expires_at)
    /\ call' = [call EXCEPT ![c] = [@ EXCEPT !.op = "get_access_token", !.pc = "refresh"]]
    /\ UNCHANGED <<cvars, gvars, vvars, svars, access_token, expires_at, connection_mode, proxy_url,
                   force_proxy, dotenv, now, issued>>

\* _refresh_tokens: get_key(OAUTH_REFRESH_TOKEN), then self.request(...)
RefreshReadToken(c) ==
    /\ call[c].pc = "refresh"
    /\ call' = [call EXCEPT ![c] =
                   IF dotenv.refresh_token = NoToken
                   THEN Ended(@, "ValueError", NoToken)
                   ELSE [@ EXCEPT !.current_refresh_token = dotenv.refresh_token,
                                  !.do_retry = RefreshDoRetry,
                                  !.pc = "begin"]]
    /\ UNCHANGED <<cvars, gvars, vvars, svars, access_token, expires_at, connection_mode, proxy_url,
                   force_proxy, dotenv, now, issued, ncalls>>

\* a caller invokes request(method, url, _do_retry=retry)
CallRequest(c, retry) ==
    /\ call[c].pc = "idle"
    /\ ncalls < MaxCalls
    /\ ncalls' = ncalls + 1
    /\ call' = [call EXCEPT ![c] = [@ EXCEPT !.op = "request", !.do_retry = retry, !.pc = "begin"]]
    /\ UNCHANGED <<cvars, gvars, vvars, svars, access_token, expires_at, connection_mode, proxy_url,
                   force_proxy, dotenv, now, issued>>

\* a caller iterates async_stream_request(method, url, _do_retry=retry)
CallStream(c, retry) ==
    /\ call[c].pc = "idle"
    /\ ncalls < MaxCalls
    /\ ncalls' = ncalls + 1
    /\ call' = [call EXCEPT ![c] = [@ EXCEPT !.op = "stream", !.do_retry = retry, !.pc = "begin"]]
    /\ UNCHANGED <<cvars, gvars, vvars, svars, access_token, expires_at, connection_mode, proxy_url,
                   force_proxy, dotenv, now, issued>>

\* request / async_stream_request up to the first attempt:
\* _update_connection_mode_from_env, primary and secondary mode, the swap
\* when PROXY is primary without a proxy URL; the first attempt is sent
RequestBegin(c) ==
    /\ call[c].pc = "begin"
    /\ LET mode == IF force_proxy THEN "proxy" ELSE connection_mode
           swap == mode = "proxy" /\ ~ProxiesAvailable("proxy")
           primary == IF swap THEN SecondaryMode(mode) ELSE mode
           secondary == IF swap THEN mode ELSE SecondaryMode(mode)
       IN /\ connection_mode' = mode
          /\ call' = [call EXCEPT ![c] = [@ EXCEPT !.primary_mode = primary,
                                                   !.secondary_mode = secondary,
                                                   !.attempts = <<primary>>,
                                                   !.pc = "attempt1"]]
    /\ UNCHANGED <<cvars, gvars, vvars, svars, access_token, expires_at, proxy_url, force_proxy, dotenv,
                   now, issued, ncalls>>

InFlight(c) == call[c].pc \in {"attempt1", "attempt2"}

\* request: the attempt in flight succeeds, the response is returned
RequestOk(c) ==
    /\ InFlight(c)
    /\ call[c].op = "request"
    /\ call' = [call EXCEPT ![c] = Ended(@, "ok", NoToken)]
    /\ UNCHANGED <<cvars, gvars, vvars, svars, access_token, expires_at, connection_mode, proxy_url,
                   force_proxy, dotenv, now, issued, ncalls>>

\* _refresh_tokens: the POST in flight succeeds; the token endpoint answers
\* with a new access token, expires_in and, when rotate, a new refresh token
RefreshOk(c, expires_in, rotate) ==
    /\ InFlight(c)
    /\ call[c].op = "get_access_token"
    /\ issued < MaxIssued
    /\ issued' = issued + 1
    /\ call' = [call EXCEPT ![c] =
                   [@ EXCEPT !.response =
                                 [access_token |-> issued + 1,
                                  expires_in |-> expires_in,
                                  refresh_token |-> IF rotate THEN issued + 2 ELSE NoToken],
                             !.pc = "store"]]
    /\ UNCHANGED <<cvars, gvars, vvars, svars, access_token, expires_at, connection_mode, proxy_url,
                   force_proxy, dotenv, now, ncalls>>

\* async_stream_request: the attempt in flight opens the response;
\* on_open is invoked with it
StreamOpen(c) ==
    /\ InFlight(c)
    /\ call[c].op = "stream"
    /\ call' = [call EXCEPT ![c] =
                   [@ EXCEPT !.opens = @ + 1,
                             !.pc = IF call[c].pc = "attempt1" THEN "stream1" ELSE "stream2"]]
    /\ UNCHANGED <<cvars, gvars, vvars, svars, access_token, expires_at, connection_mode, proxy_url,
                   force_proxy, dotenv, now, issued, ncalls>>

Streaming(c) == call[c].pc \in {"stream1", "stream2"}

\* async_stream_request: one line of the open response is yielded
StreamLine(c) ==
    /\ Streaming(c)
    /\ call[c].lines < 2 * MaxLines
    /\ call' = [call EXCEPT ![c] = [@ EXCEPT !.lines = @ + 1]]
    /\ UNCHANGED <<cvars, gvars, vvars, svars, access_token, expires_at, connection_mode, proxy_url,
                   force_proxy, dotenv, now, issued, ncalls>>

\* async_stream_request: the open response ends, the generator returns
StreamEnd(c) ==
    /\ Streaming(c)
    /\ call' = [call EXCEPT ![c] = Ended(@, "ok", NoToken)]
    /\ UNCHANGED <<cvars, gvars, vvars, svars, access_token, expires_at, connection_mode, proxy_url,
                   force_proxy, dotenv, now, issued, ncalls>>

\* the except clause of the first attempt with the exception caught:
\* without retry ConnectionError; otherwise connection_mode is set to the
\* secondary mode and the second attempt is sent, unless that mode is PROXY
\* and no proxy URL is configured
FirstFailure(c, error) ==
    /\ call' = [call EXCEPT ![c] =
                   IF ~call[c].do_retry
                   THEN Ended([@ EXCEPT !.first_error = error], "ConnectionError", NoToken)
                   ELSE IF ~ProxiesAvailable(call[c].secondary_mode)
                        THEN Ended([@ EXCEPT !.first_error = error,
                                             !.mode_set = call[c].secondary_mode],
                                   "ConnectionError", NoToken)
                        ELSE [@ EXCEPT !.first_error = error,
                                       !.mode_set = call[c].secondary_mode,
                                       !.attempts = Append(@, call[c].secondary_mode),
                                       !.pc = "attempt2"]]
    /\ connection_mode' = IF call[c].do_retry THEN call[c].secondary_mode
                          ELSE connection_mode

\* the except clause of the second attempt: ConnectionError
SecondFailure(c) ==
    /\ call' = [call EXCEPT ![c] = Ended(@, "ConnectionError", NoToken)]
    /\ UNCHANGED connection_mode

\* an exception that neither except clause catches leaves the call
Propagates(c, error) ==
    /\ call' = [call EXCEPT ![c] =
                   Ended([@ EXCEPT !.first_error =
                                       IF call[c].pc = "attempt1" THEN error ELSE @],
                         "HTTPStatusError", NoToken)]
    /\ UNCHANGED connection_mode

\* the attempt in flight fails with error: "transport" (connect, TLS,
\* timeout, DNS) or "http" (raise_for_status on a 4xx/5xx response)
AttemptFails(c, error) ==
    /\ InFlight(c)
    /\ IF ~Caught(call[c].op, error) THEN Propagates(c, error)
       ELSE IF call[c].pc = "attempt1" THEN FirstFailure(c, error)
       ELSE SecondFailure(c)
    /\ UNCHANGED <<cvars, gvars, vvars, svars, access_token, expires_at, proxy_url, force_proxy, dotenv,
                   now, issued, ncalls>>

\* async_stream_request: the open response breaks while its lines are read
\* (httpx.RequestError raised inside the same try block)
StreamFails(c) ==
    /\ Streaming(c)
    /\ IF call[c].pc = "stream1" THEN FirstFailure(c, "transport") ELSE SecondFailure(c)
    /\ UNCHANGED <<cvars, gvars, vvars, svars, access_token, expires_at, proxy_url, force_proxy, dotenv,
                   now, issued, ncalls>>

\* the configuration file as a refresh leaves it once all its keys are written
NewFile(response, at) ==
    [access_token |-> response.access_token,
     expires_at |-> at,
     refresh_token |-> IF response.refresh_token # NoToken
                       THEN response.refresh_token ELSE dotenv.refresh_token]

\* _refresh_tokens: self.access_token and self.expires_at are assigned
RefreshStoreMemory(c) ==
    /\ call[c].pc = "store"
    /\ access_token' = call[c].response.access_token
    /\ expires_at' = now + call[c].response.expires_in - SafetyMargin
    /\ call' = [call EXCEPT ![c] =
                   [@ EXCEPT !.file_before = dotenv,
                             !.file_new = NewFile(call[c].response,
                                                  now + call[c].response.expires_in - SafetyMargin),
                             !.pc = "write_access"]]
    /\ UNCHANGED <<cvars, gvars, vvars, svars, connection_mode, proxy_url, force_proxy, dotenv, now, issued, ncalls>>

\* set_key(OAUTH_ACCESS_TOKEN, self.access_token)
RefreshWriteAccessToken(c) ==
    /\ call[c].pc = "write_access"
    /\ dotenv' = [dotenv EXCEPT !.access_token = access_token]
    /\ call' = [call EXCEPT ![c] = [@ EXCEPT !.pc = "write_expiry"]]
    /\ UNCHANGED <<cvars, gvars, vvars, svars, access_token, expires_at, connection_mode, proxy_url,
                   force_proxy, now, issued, ncalls>>

\* what get_access_token does after _refresh_tokens has returned
AfterRefresh(cl) ==
    IF access_token # NoToken THEN Ended(cl, "ok", access_token)
    ELSE Ended(cl, "ValueError", NoToken)

\* set_key(OAUTH_ACCESS_TOKEN_EXPIRES_AT, self.expires_at.isoformat());
\* without a refresh_token in the response _refresh_tokens is over
RefreshWriteExpiry(c) ==
    /\ call[c].pc = "write_expiry"
    /\ dotenv' = [dotenv EXCEPT !.expires_at = expires_at]
    /\ call' = [call EXCEPT ![c] =
                   IF call[c].response.refresh_token # NoToken
                   THEN [@ EXCEPT !.pc = "write_refresh"]
                   ELSE AfterRefresh(@)]
    /\ UNCHANGED <<cvars, gvars, vvars, svars, access_token, expires_at, connection_mode, proxy_url,
                   force_proxy, now, issued, ncalls>>

\* set_key(OAUTH_REFRESH_TOKEN, new_refresh_token)
RefreshWriteRefreshToken(c) ==
    /\ call[c].pc = "write_refresh"
    /\ dotenv' = [dotenv EXCEPT !.refresh_token = call[c].response.refresh_token]
    /\ call' = [call EXCEPT ![c] = AfterRefresh(@)]
    /\ UNCHANGED <<cvars, gvars, vvars, svars, access_token, expires_at, connection_mode, proxy_url,
                   force_proxy, now, issued, ncalls>>

\* the caller takes the outcome of its call and is free for the next one
Finish(c) ==
    /\ call[c].pc = "done"
    /\ call' = [call EXCEPT ![c] = IdleCall]
    /\ UNCHANGED <<cvars, gvars, vvars, svars, access_token, expires_at, connection_mode, proxy_url,
                   force_proxy, dotenv, now, issued, ncalls>>

\* time passes
Tick ==
    /\ now < MaxTicks * TickSeconds
    /\ now' = now + TickSeconds
    /\ UNCHANGED <<cvars, gvars, vvars, svars, access_token, expires_at, connection_mode, proxy_url,
                   force_proxy, dotenv, issued, ncalls, call>>

\* FORCE_PROXY is edited in the configuration file while the process runs
SetForceProxy ==
    /\ force_proxy' = ~force_proxy
    /\ UNCHANGED <<cvars, gvars, vvars, svars, access_token, expires_at, connection_mode, proxy_url,
                   dotenv, now, issued, ncalls, call>>

TNext ==
    \/ \E c \in Callers : GetAccessTokenCached(c)
    \/ \E c \in Callers : GetAccessTokenExpired(c)
    \/ \E c \in Callers : RefreshReadToken(c)
    \/ \E c \in Callers, retry \in BOOLEAN : CallRequest(c, retry)
    \/ \E c \in Callers, retry \in BOOLEAN : CallStream(c, retry)
    \/ \E c \in Callers : RequestBegin(c)
    \/ \E c \in Callers : RequestOk(c)
    \/ \E c \in Callers, expires_in \in ExpiresIn, rotate \in BOOLEAN :
           RefreshOk(c, expires_in, rotate)
    \/ \E c \in Callers : StreamOpen(c)
    \/ \E c \in Callers : StreamLine(c)
    \/ \E c \in Callers : StreamEnd(c)
    \/ \E c \in Callers, error \in {"transport", "http"} : AttemptFails(c, error)
    \/ \E c \in Callers : StreamFails(c)
    \/ \E c \in Callers : RefreshStoreMemory(c)
    \/ \E c \in Callers : RefreshWriteAccessToken(c)
    \/ \E c \in Callers : RefreshWriteExpiry(c)
    \/ \E c \in Callers : RefreshWriteRefreshToken(c)
    \/ \E c \in Callers : Finish(c)
    \/ Tick
    \/ SetForceProxy

SpecToken == TInit /\ [][TNext]_vars

(***************************************************************************)
(* Gateway: one request served from one upstream stream.                   *)
(* A text is the sequence of its characters, "" is <<>>.                   *)
(***************************************************************************)
None == "None"

\* tc.get("index") is None
NoIndex == -1

\* a partial tool-call record of an upstream delta
ToolCallDelta(index, id, name, arguments) ==
    [index |-> index, id |-> id, name |-> name, arguments |-> arguments]

\* choices[0].delta of one upstream payload line; function_call holds the
\* legacy field when the line has one
Delta(content, tool_calls, function_call) ==
    [content |-> content, tool_calls |-> tool_calls, function_call |-> function_call]

UpstreamDeltas ==
    { Delta(<<"h">>, <<>>, <<>>),
      Delta(<<"w">>, <<>>, <<>>),
      Delta(<<>>, <<>>, <<>>),
      Delta(<<>>, <<ToolCallDelta(0, "a", "f", <<>>)>>, <<>>),
      Delta(<<>>, <<ToolCallDelta(1, "b", "f", <<>>)>>, <<>>),
      Delta(<<>>, <<ToolCallDelta(0, "a", None, <<>>)>>, <<>>),
      Delta(<<>>, <<ToolCallDelta(0, None, "f", <<>>)>>, <<>>),
      Delta(<<>>, <<ToolCallDelta(0, "b", "g", <<>>)>>, <<>>),
      Delta(<<>>, <<ToolCallDelta(0, "a", "f", <<"x">>)>>, <<>>),
      Delta(<<>>, <<ToolCallDelta(1, "b", "f", <<"x">>)>>, <<>>),
      Delta(<<>>, <<ToolCallDelta(0, None, None, <<"x">>)>>, <<>>),
      Delta(<<>>, <<ToolCallDelta(0, None, None, <<"y">>)>>, <<>>),
      Delta(<<>>, <<ToolCallDelta(1, None, None, <<"y">>)>>, <<>>),
      Delta(<<>>, <<ToolCallDelta(NoIndex, "a", "f", <<>>)>>, <<>>),
      Delta(<<>>, <<ToolCallDelta(NoIndex, "b", None, <<"x">>)>>, <<>>),
      Delta(<<>>, <<ToolCallDelta(NoIndex, None, None, <<"y">>)>>, <<>>),
      Delta(<<"h">>, <<ToolCallDelta(0, "a", "f", <<>>)>>, <<>>),
      Delta(<<>>, <<ToolCallDelta(0, "a", "f", <<>>), ToolCallDelta(1, "b", "f", <<>>)>>, <<>>),
      Delta(<<>>, <<>>, <<[id |-> None, name |-> "f", arguments |-> <<"x">>]>>) }

Upstreams == UNION {[1..n -> UpstreamDeltas] : n \in 0..MaxDeltas}

\* the operations a request is served by
NonStreaming == {"messages", "responses"}
Streaming_ == {"messages_stream", "responses_stream", "chat_stream"}

NoApiResponse == [status |-> "none", content |-> <<>>, tool_calls |-> <<>>]

\* _response_store = {} when the module is loaded, and with one response
\* stored by an earlier request
EmptyStore == [id \in {} |-> NoApiResponse]
EarlierStore == [id \in {"resp_0"} |->
                    [status |-> "completed", content |-> <<>>, tool_calls |-> <<>>]]

(***************************************************************************)
(* Upstream client (core/llm.py): _stream/_astream parse a payload line    *)
(* into a chunk, _generate aggregates the chunks.                          *)
(***************************************************************************)
\* tool_calls_delta: the tool_calls of the delta, a legacy function_call
\* appended to it as a tool call of index 0
ToolCallsDelta(delta) ==
    delta.tool_calls \o
    [i \in 1..Len(delta.function_call) |->
        ToolCallDelta(0, delta.function_call[i].id, delta.function_call[i].name,
                      delta.function_call[i].arguments)]

\* if content_delta or additional_kwargs: yield the chunk
Yielded(delta) == delta.content # <<>> \/ ToolCallsDelta(delta) # <<>>

\* ("i", idx) if the index is present, else ("id", tid), else ("i", 0)
Key(tc) ==
    IF tc.index # NoIndex THEN [kind |-> "i", index |-> tc.index, id |-> None]
    ELSE IF tc.id # None THEN [kind |-> "id", index |-> NoIndex, id |-> tc.id]
    ELSE [kind |-> "i", index |-> 0, id |-> None]

NewBuilder(tc) == [type |-> "function", id |-> tc.id, name |-> None, arguments |-> <<>>]

\* mutant of MergeBuilder: the last fragment replaces the arguments
MergeBuilder_LastFragment(b, tc) ==
    [b EXCEPT !.id = IF tc.id # None /\ b.id = None THEN tc.id ELSE @,
              !.name = IF tc.name # None THEN tc.name ELSE @,
              !.arguments = IF tc.arguments # <<>> THEN tc.arguments ELSE @]

\* the fields of one partial record merged into its builder
MergeBuilder(b, tc) ==
    [b EXCEPT !.id = IF tc.id # None /\ b.id = None THEN tc.id ELSE @,
              !.name = IF tc.name # None THEN tc.name ELSE @,
              !.arguments = IF tc.arguments # <<>> THEN @ \o tc.arguments ELSE @]

\* one iteration of `for tc in tcs` on st = (tool_builders, order)
AccumulateToolCall(st, tc) ==
    LET key == Key(tc)
        known == key \in DOMAIN st.tool_builders
        b == IF known THEN st.tool_builders[key] ELSE NewBuilder(tc)
    IN [tool_builders |-> (key :> MergeBuilder(b, tc)) @@ st.tool_builders,
        order |-> IF known THEN st.order ELSE Append(st.order, key)]

RECURSIVE AccumulateToolCalls(_, _)
AccumulateToolCalls(st, tcs) ==
    IF tcs = <<>> THEN st
    ELSE AccumulateToolCalls(AccumulateToolCall(st, Head(tcs)), Tail(tcs))

\* final_tool_calls: the builders in the order their keys were first seen
FinalToolCalls(builders, keys) == [i \in 1..Len(keys) |-> builders[keys[i]]]

\* a request arrives; the response store and request.store concern the
\* Responses operations only
SInit ==
    /\ endpoint \in NonStreaming \cup Streaming_
    /\ upstream \in Upstreams
    /\ pos = 0
    /\ spc = "start"
    /\ failed = FALSE
    /\ events = <<>>
    /\ full_response_content = <<>>
    /\ tool_builders = <<>>
    /\ order = <<>>
    /\ content_buffer = <<>>
    /\ block_index = 0
    /\ text_block_started = FALSE
    /\ text_block_has_content = FALSE
    /\ tool_states = <<>>
    /\ stop_reason = "end_turn"
    /\ _response_store \in (IF endpoint \in {"responses", "responses_stream"}
                            THEN {EmptyStore, EarlierStore} ELSE {EmptyStore})
    /\ store_before = _response_store
    /\ request_store \in (IF endpoint \in {"responses", "responses_stream"}
                          THEN BOOLEAN ELSE {FALSE})
    /\ api_response = NoApiResponse
    /\ VQuiet
    /\ TQuiet
    /\ GQuiet
    /\ CQuiet

\* _astream/_stream: a payload line that gives no chunk is passed over
SkipLine ==
    /\ spc = "streaming"
    /\ pos < Len(upstream)
    /\ ~Yielded(upstream[pos + 1])
    /\ pos' = pos + 1
    /\ UNCHANGED <<cvars, gvars, vvars, tvars, endpoint, upstream, spc, failed, events,
                   full_response_content, tool_builders, order,
                   content_buffer, block_index, text_block_started,
                   text_block_has_content, tool_states, stop_reason,
                   _response_store, store_before, request_store, api_response>>

\* chat_model.invoke is called: _generate starts to read _stream
InvokeBegin ==
    /\ spc = "start"
    /\ endpoint \in NonStreaming
    /\ spc' = "streaming"
    /\ UNCHANGED <<cvars, gvars, vvars, tvars, endpoint, upstream, pos, failed, events,
                   full_response_content, tool_builders, order,
                   content_buffer, block_index, text_block_started,
                   text_block_has_content, tool_states, stop_reason,
                   _response_store, store_before, request_store, api_response>>

\* _generate: one iteration of `for chunk in self._stream(...)`
GenerateChunk ==
    /\ spc = "streaming"
    /\ endpoint \in NonStreaming
    /\ pos < Len(upstream)
    /\ Yielded(upstream[pos + 1])
    /\ pos' = pos + 1
    /\ full_response_content' = full_response_content \o upstream[pos + 1].content
    /\ LET st == AccumulateToolCalls([tool_builders |-> tool_builders, order |-> order],
                                     ToolCallsDelta(upstream[pos + 1]))
       IN /\ tool_builders' = st.tool_builders
          /\ order' = st.order
    /\ UNCHANGED <<cvars, gvars, vvars, tvars, endpoint, upstream, spc, failed, events,
                   content_buffer, block_index, text_block_started,
                   text_block_has_content, tool_states, stop_reason,
                   _response_store, store_before, request_store, api_response>>

\* full_response_content as _generate builds it from the chunks of a stream
RECURSIVE GenerateContent(_)
GenerateContent(s) ==
    IF s = <<>> THEN <<>> ELSE Head(s).content \o GenerateContent(Tail(s))

\* store_response(response): _response_store[response.id] = response
store_response(store, id, response) ==
    [x \in DOMAIN store \cup {id} |-> IF x = id THEN response ELSE store[x]]

\* the content blocks a non-streaming response gets for the message text:
\* one text block when the content is not empty
ContentBlocks(content) ==
    IF content # <<>> THEN <<[type |-> "text", text |-> content]>> ELSE <<>>

\* _generate over a whole upstream stream: the sealed tool calls
RECURSIVE GenerateBuilders(_, _)
GenerateBuilders(st, s) ==
    IF s = <<>> THEN st
    ELSE GenerateBuilders(AccumulateToolCalls(st, ToolCallsDelta(Head(s))), Tail(s))

GenerateToolCalls(s) ==
    LET st == GenerateBuilders([tool_builders |-> <<>>, order |-> <<>>], s)
    IN FinalToolCalls(st.tool_builders, st.order)

\* langchain_to_anthropic_response: the tool_use blocks of a non-streaming
\* reply, one for every tool call of the message, with the id and the name of
\* the tool call and the arguments text its input is parsed from
ToolUseBlocks(tool_calls) ==
    [i \in 1..Len(tool_calls) |->
        [id |-> tool_calls[i].id, name |-> tool_calls[i].name,
         arguments |-> tool_calls[i].arguments]]

\* langchain_to_anthropic_response: stop_reason of a non-streaming reply; every
\* tool call of the message becomes one tool_use block
StopReason(tool_calls) == IF tool_calls # <<>> THEN "tool_use" ELSE "end_turn"

\* get_response: GET /v1/responses/{id} answers 404 when the store holds no
\* response under the id, else 200 with the stored response
get_response(store, response_id) ==
    IF response_id \in DOMAIN store THEN 200 ELSE 404

\* mutant of InvokeReturn: the response is stored whatever request.store says
InvokeReturn_AlwaysStores ==
    /\ spc = "streaming"
    /\ endpoint \in NonStreaming
    /\ pos = Len(upstream)
    /\ api_response' = [status |-> "completed",
                        content |-> ContentBlocks(full_response_content),
                        tool_calls |-> FinalToolCalls(tool_builders, order)]
    /\ stop_reason' = IF endpoint = "messages"
                      THEN StopReason(FinalToolCalls(tool_builders, order))
                      ELSE stop_reason
    /\ _response_store' = IF endpoint = "responses"
                          THEN store_response(_response_store, "resp_new", api_response')
                          ELSE _response_store
    /\ spc' = "done"
    /\ UNCHANGED <<cvars, gvars, vvars, tvars, endpoint, upstream, pos, failed, events,
                   full_response_content, tool_builders, order,
                   content_buffer, block_index, text_block_started,
                   text_block_has_content, tool_states,
                   store_before, request_store>>

\* _generate returns the AIMessage; the endpoint converts it, create_response
\* stores it when request.store is set
InvokeReturn ==
    /\ spc = "streaming"
    /\ endpoint \in NonStreaming
    /\ pos = Len(upstream)
    /\ api_response' = [status |-> "completed",
                        content |-> ContentBlocks(full_response_content),
                        tool_calls |-> FinalToolCalls(tool_builders, order)]
    /\ stop_reason' = IF endpoint = "messages"
                      THEN StopReason(FinalToolCalls(tool_builders, order))
                      ELSE stop_reason
    /\ _response_store' = IF endpoint = "responses" /\ request_store
                          THEN store_response(_response_store, "resp_new", api_response')
                          ELSE _response_store
    /\ spc' = "done"
    /\ UNCHANGED <<cvars, gvars, vvars, tvars, endpoint, upstream, pos, failed, events,
                   full_response_content, tool_builders, order,
                   content_buffer, block_index, text_block_started,
                   text_block_has_content, tool_states,
                   store_before, request_store>>

\* mutant of InvokeFails: the response is stored before invoke is called
InvokeFails_Stores ==
    /\ spc = "streaming"
    /\ endpoint \in NonStreaming
    /\ failed' = TRUE
    /\ api_response' = [NoApiResponse EXCEPT !.status = "error"]
    /\ _response_store' = IF endpoint = "responses" /\ request_store
                          THEN store_response(_response_store, "resp_new", NoApiResponse)
                          ELSE _response_store
    /\ spc' = "done"
    /\ UNCHANGED <<cvars, gvars, vvars, tvars, endpoint, upstream, pos, events,
                   full_response_content, tool_builders, order,
                   content_buffer, block_index, text_block_started,
                   text_block_has_content, tool_states, stop_reason,
                   store_before, request_store>>

\* the upstream call raises, before the reply or in the middle of it:
\* invoke raises and the endpoint answers with HTTP 500
InvokeFails ==
    /\ spc = "streaming"
    /\ endpoint \in NonStreaming
    /\ failed' = TRUE
    /\ api_response' = [NoApiResponse EXCEPT !.status = "error"]
    /\ spc' = "done"
    /\ UNCHANGED <<cvars, gvars, vvars, tvars, endpoint, upstream, pos, events,
                   full_response_content, tool_builders, order,
                   content_buffer, block_index, text_block_started,
                   text_block_has_content, tool_states, stop_reason,
                   _response_store, store_before, request_store>>

(***************************************************************************)
(* Emitters.  An emitted event is its type, the content-block index it     *)
(* names (NoIndex if none), the kind of block or delta, and its text.      *)
(***************************************************************************)
Event(type, index, kind, text) ==
    [type |-> type, index |-> index, kind |-> kind, text |-> text]

Emit(type) == Event(type, NoIndex, "none", <<>>)

\* tc.get("index", 0)
TcIndex(tc) == IF tc.index = NoIndex THEN 0 ELSE tc.index

\* anthropic_stream_generator: message_start is yielded, astream is called
AnthropicStart ==
    /\ spc = "start"
    /\ endpoint = "messages_stream"
    /\ events' = Append(events, Emit("message_start"))
    /\ spc' = "streaming"
    /\ UNCHANGED <<cvars, gvars, vvars, tvars, endpoint, upstream, pos, failed,
                   full_response_content, tool_builders, order,
                   content_buffer, block_index, text_block_started,
                   text_block_has_content, tool_states, stop_reason,
                   _response_store, store_before, request_store, api_response>>

\* the text part of one chunk, on st = (events, started): the text block is
\* opened on the first text, every text is sent as a text_delta
AnthropicText(st, content_delta) ==
    IF content_delta = <<>> THEN st
    ELSE [events |-> (IF st.started THEN st.events
                      ELSE Append(st.events,
                                  Event("content_block_start", block_index, "text", <<>>)))
                     \o <<Event("content_block_delta", block_index, "text_delta",
                                content_delta)>>,
          started |-> TRUE]

\* one iteration of `for tc in tool_calls_delta` on st = (events, tool_states);
\* base is block_index after the text block was closed
AnthropicToolCall(st, tc, base) ==
    LET tc_index == TcIndex(tc)
        state0 == IF tc_index \in DOMAIN st.tool_states THEN st.tool_states[tc_index]
                  ELSE [id |-> tc.id, name |-> tc.name, arguments_buffer |-> <<>>,
                        block_index |-> base + tc_index, started |-> FALSE]
        state1 == [state0 EXCEPT
                      !.id = IF tc.id # None /\ state0.id = None THEN tc.id ELSE @,
                      !.name = IF tc.name # None /\ state0.name = None THEN tc.name ELSE @]
        starts == ~state1.started /\ state1.id # None /\ state1.name # None
        started == state1.started \/ starts
        sends == tc.arguments # <<>> /\ started
        state2 == [state1 EXCEPT
                      !.started = started,
                      !.arguments_buffer = IF sends THEN @ \o tc.arguments ELSE @]
    IN [events |-> st.events
                   \o (IF starts
                       THEN <<Event("content_block_start", state1.block_index,
                                    "tool_use", <<>>)>>
                       ELSE <<>>)
                   \o (IF sends
                       THEN <<Event("content_block_delta", state1.block_index,
                                    "input_json_delta", tc.arguments)>>
                       ELSE <<>>),
        tool_states |-> (tc_index :> state2) @@ st.tool_states]

RECURSIVE AnthropicToolCalls(_, _, _)
AnthropicToolCalls(st, tcs, base) ==
    IF tcs = <<>> THEN st
    ELSE AnthropicToolCalls(AnthropicToolCall(st, Head(tcs), base), Tail(tcs), base)

\* anthropic_stream_generator: one iteration of `async for chunk in astream`
AnthropicChunk ==
    /\ spc = "streaming"
    /\ endpoint = "messages_stream"
    /\ pos < Len(upstream)
    /\ Yielded(upstream[pos + 1])
    /\ pos' = pos + 1
    /\ LET delta == upstream[pos + 1]
           tcs == ToolCallsDelta(delta)
           txt == AnthropicText([events |-> events, started |-> text_block_started],
                                delta.content)
           has_content == text_block_has_content \/ delta.content # <<>>
           closes == tcs # <<>> /\ txt.started /\ has_content
           base == IF closes THEN block_index + 1 ELSE block_index
           tls == AnthropicToolCalls(
                      [events |-> IF closes
                                  THEN Append(txt.events,
                                              Event("content_block_stop", block_index,
                                                    "none", <<>>))
                                  ELSE txt.events,
                       tool_states |-> tool_states],
                      tcs, base)
       IN /\ content_buffer' = content_buffer \o delta.content
          /\ events' = tls.events
          /\ tool_states' = tls.tool_states
          /\ block_index' = base
          /\ text_block_started' = (txt.started /\ ~closes)
          /\ text_block_has_content' = (has_content /\ ~closes)
          /\ stop_reason' = IF tcs # <<>> THEN "tool_use" ELSE stop_reason
    /\ UNCHANGED <<cvars, gvars, vvars, tvars, endpoint, upstream, spc, failed,
                   full_response_content, tool_builders, order,
                   _response_store, store_before, request_store, api_response>>

\* `for tc_index, state in sorted(tool_states.items())`: a
\* content_block_stop for every tool block that was started
RECURSIVE ToolBlockStops(_, _)
ToolBlockStops(states, indices) ==
    IF indices = {} THEN <<>>
    ELSE LET tc_index == CHOOSE i \in indices : \A j \in indices : i <= j
         IN (IF states[tc_index].started
             THEN <<Event("content_block_stop", states[tc_index].block_index,
                          "none", <<>>)>>
             ELSE <<>>)
            \o ToolBlockStops(states, indices \ {tc_index})

\* anthropic_stream_generator: the stream is over; the open blocks are
\* closed, message_delta and message_stop are yielded
AnthropicFinish ==
    /\ spc = "streaming"
    /\ endpoint = "messages_stream"
    /\ pos = Len(upstream)
    /\ events' = events
                 \o (IF text_block_started
                     THEN <<Event("content_block_stop", block_index, "none", <<>>)>>
                     ELSE <<>>)
                 \o ToolBlockStops(tool_states, DOMAIN tool_states)
                 \o <<Event("message_delta", NoIndex, stop_reason, <<>>),
                      Emit("message_stop")>>
    /\ block_index' = IF text_block_started THEN block_index + 1 ELSE block_index
    /\ spc' = "done"
    /\ UNCHANGED <<cvars, gvars, vvars, tvars, endpoint, upstream, pos, failed,
                   full_response_content, tool_builders, order,
                   content_buffer, text_block_started,
                   text_block_has_content, tool_states, stop_reason,
                   _response_store, store_before, request_store, api_response>>

\* anthropic_stream_generator: astream raises; an error event is yielded
AnthropicFails ==
    /\ spc = "streaming"
    /\ endpoint = "messages_stream"
    /\ failed' = TRUE
    /\ events' = Append(events, Emit("error"))
    /\ spc' = "done"
    /\ UNCHANGED <<cvars, gvars, vvars, tvars, endpoint, upstream, pos,
                   full_response_content, tool_builders, order,
                   content_buffer, block_index, text_block_started,
                   text_block_has_content, tool_states, stop_reason,
                   _response_store, store_before, request_store, api_response>>

\* the parameters create_response_created_event is defined with
CreatedEventParameters == {"response_id", "model", "previous_response_id"}

\* the keyword arguments response_stream_generator calls it with
CreatedEventKeywords == {"response_id", "model", "previous_response_id", "sequence_number"}

\* response_stream_generator: the first statement that builds an event
\* passes a keyword the function does not take; the TypeError is caught by
\* `except Exception` and an error event is yielded.  astream is not reached
\* and store_response is not called.
ResponseStreamGenerator ==
    /\ spc = "start"
    /\ endpoint = "responses_stream"
    /\ ~(CreatedEventKeywords \subseteq CreatedEventParameters)
    /\ events' = Append(events, Emit("error"))
    /\ spc' = "done"
    /\ UNCHANGED <<cvars, gvars, vvars, tvars, endpoint, upstream, pos, failed,
                   full_response_content, tool_builders, order,
                   content_buffer, block_index, text_block_started,
                   text_block_has_content, tool_states, stop_reason,
                   _response_store, store_before, request_store, api_response>>

\* create_chat_completion.stream_generator: astream is called
ChatStart ==
    /\ spc = "start"
    /\ endpoint = "chat_stream"
    /\ spc' = "streaming"
    /\ UNCHANGED <<cvars, gvars, vvars, tvars, endpoint, upstream, pos, failed, events,
                   full_response_content, tool_builders, order,
                   content_buffer, block_index, text_block_started,
                   text_block_has_content, tool_states, stop_reason,
                   _response_store, store_before, request_store, api_response>>

\* stream_generator: one iteration of `async for chunk in astream`; the
\* chunk is a message chunk, getattr(chunk, "message", None) is None, so a
\* data frame is yielded for its content only
ChatChunk ==
    /\ spc = "streaming"
    /\ endpoint = "chat_stream"
    /\ pos < Len(upstream)
    /\ Yielded(upstream[pos + 1])
    /\ pos' = pos + 1
    /\ events' = IF upstream[pos + 1].content # <<>>
                 THEN Append(events, Event("data", NoIndex, "delta", upstream[pos + 1].content))
                 ELSE events
    /\ UNCHANGED <<cvars, gvars, vvars, tvars, endpoint, upstream, spc, failed,
                   full_response_content, tool_builders, order,
                   content_buffer, block_index, text_block_started,
                   text_block_has_content, tool_states, stop_reason,
                   _response_store, store_before, request_store, api_response>>

\* stream_generator: the final chunk and the [DONE] line
ChatFinish ==
    /\ spc = "streaming"
    /\ endpoint = "chat_stream"
    /\ pos = Len(upstream)
    /\ events' = events \o <<Event("data", NoIndex, "stop", <<>>), Emit("[DONE]")>>
    /\ spc' = "done"
    /\ UNCHANGED <<cvars, gvars, vvars, tvars, endpoint, upstream, pos, failed,
                   full_response_content, tool_builders, order,
                   content_buffer, block_index, text_block_started,
                   text_block_has_content, tool_states, stop_reason,
                   _response_store, store_before, request_store, api_response>>

\* stream_generator: astream raises; one data frame with an error object
ChatFails ==
    /\ spc = "streaming"
    /\ endpoint = "chat_stream"
    /\ failed' = TRUE
    /\ events' = Append(events, Event("data", NoIndex, "error", <<>>))
    /\ spc' = "done"
    /\ UNCHANGED <<cvars, gvars, vvars, tvars, endpoint, upstream, pos,
                   full_response_content, tool_builders, order,
                   content_buffer, block_index, text_block_started,
                   text_block_has_content, tool_states, stop_reason,
                   _response_store, store_before, request_store, api_response>>

SNext ==
    \/ SkipLine
    \/ InvokeBegin
    \/ GenerateChunk
    \/ InvokeReturn
    \/ InvokeFails
    \/ AnthropicStart
    \/ AnthropicChunk
    \/ AnthropicFinish
    \/ AnthropicFails
    \/ ResponseStreamGenerator
    \/ ChatStart
    \/ ChatChunk
    \/ ChatFinish
    \/ ChatFails

SpecStream == SInit /\ [][SNext]_vars

(***************************************************************************)
(* Request handlers (api.py, anthropic_api.py, responses_api.py,           *)
(* responses_passthrough.py) on the one chat model of the process.         *)
(* A name or a configuration value is the sequence of its parts: "oca/x"   *)
(* is <<"oca/", "x">>, "" is <<>>.                                         *)
(***************************************************************************)
ModelNames == {<<>>, <<"x">>, <<"oca/", "x">>, <<"oca/", "y">>}

\* chat_model.available_models
available_models == {<<"oca/", "x">>, <<"oca/", "y">>}

Temperatures == {"0.2", "0.7"}

VALID_REASONING_EFFORTS == {"low", "medium", "high", "xhigh", "minimal", "none"}

EnvKeys == {"LLM_MODEL_NAME", "LLM_REASONING_STRENGTH", "LLM_RESPONSES_API_URL"}

EnvValues(key) ==
    IF key = "LLM_MODEL_NAME" THEN {<<"oca/", "y">>, <<"y">>}
    ELSE IF key = "LLM_REASONING_STRENGTH" THEN {<<"high">>, <<"bogus">>}
    ELSE {<<"url">>}

\* the contents of the configuration file: the keys it defines, with values
EnvFiles ==
    UNION {{f \in [K -> UNION {EnvValues(k) : k \in K}] :
               \A k \in K : f[k] \in EnvValues(k)} : K \in SUBSET EnvKeys}

\* os.getenv(key, "")
getenv(env, key) == IF key \in DOMAIN env THEN env[key] ELSE <<>>

\* load_dotenv(_ENV_PATH, override=True): every key of the file is assigned
\* in os.environ; a key the file does not define keeps its value
load_dotenv(env, file) ==
    [k \in DOMAIN env \cup DOMAIN file |-> IF k \in DOMAIN file THEN file[k] ELSE env[k]]

\* name.startswith("oca/")
StartsWithOca(name) == name # <<>> /\ Head(name) = "oca/"

\* responses_api.resolve_model_name, env being os.environ after the reload
resolve_model_name(env, incoming_model) ==
    IF StartsWithOca(incoming_model) THEN incoming_model
    ELSE IF getenv(env, "LLM_MODEL_NAME") # <<>> THEN getenv(env, "LLM_MODEL_NAME")
    ELSE incoming_model

\* responses_passthrough.resolve_passthrough_model
resolve_passthrough_model(env, incoming_model) ==
    LET llm_model_name == getenv(env, "LLM_MODEL_NAME")
    IN IF llm_model_name # <<>> /\ StartsWithOca(llm_model_name) THEN llm_model_name
       ELSE IF incoming_model # <<>>
            THEN IF StartsWithOca(incoming_model) THEN incoming_model
                 ELSE <<"oca/">> \o incoming_model
            ELSE llm_model_name

\* responses_passthrough.resolve_reasoning_effort
resolve_reasoning_effort(env, incoming_effort) ==
    LET llm_reasoning_strength == getenv(env, "LLM_REASONING_STRENGTH")
    IN IF llm_reasoning_strength # <<>> /\ llm_reasoning_strength[1] \in VALID_REASONING_EFFORTS
       THEN llm_reasoning_strength[1]
       ELSE incoming_effort

\* responses_passthrough.is_passthrough_enabled
is_passthrough_enabled(env) == getenv(env, "LLM_RESPONSES_API_URL") # <<>>

\* mutant of validate_response_request: previous_response_id is not looked up
validate_response_request_NoLookup(request, store) ==
    IF request.model = <<>> THEN 400 ELSE 0

\* validate_response_request: the status it raises, 0 when it returns
validate_response_request(request, store) ==
    IF request.model = <<>> THEN 400
    ELSE IF request.previous_response_id # None
            /\ request.previous_response_id \notin DOMAIN store
         THEN 404
         ELSE 0

\* what the upstream received for a request: nothing yet
NoPayload == [sent |-> FALSE, model |-> <<>>, temperature |-> None, effort |-> None]

Payload(model, temperature, effort) ==
    [sent |-> TRUE, model |-> model, temperature |-> temperature, effort |-> effort]

\* a client request: the fields of its body, then the handler's state
ClientRequest(ep, model, temperature, stream, effort, previous_response_id, store) ==
    [endpoint |-> ep, model |-> model, temperature |-> temperature,
     stream |-> stream, effort |-> effort,
     previous_response_id |-> previous_response_id, store |-> store,
     pc |-> "arrived", status |-> 0, resolved |-> <<>>, passthrough |-> FALSE,
     payload |-> NoPayload]

NoRequest ==
    [ClientRequest("none", <<>>, None, FALSE, None, None, FALSE) EXCEPT !.pc = "idle"]

\* the handler of a chat request reads request.stream after the chat model
\* is assigned only; one value stands for both
ChatRequests ==
    {ClientRequest("chat", m, t, FALSE, None, None, FALSE) :
        m \in ModelNames \ {<<>>}, t \in Temperatures}

MessagesRequests ==
    {ClientRequest("messages", m, "0.2", s, None, None, FALSE) :
        m \in ModelNames \ {<<"x">>}, s \in BOOLEAN}

\* store is left at its default, True
ResponsesRequests ==
    {ClientRequest("responses", m, None, s, "low", p, TRUE) :
        m \in ModelNames, s \in BOOLEAN, p \in {None, "resp_0"}}

\* generate_response_id() of the r-th request
ResponseId(r) == IF r = 1 THEN "resp_1" ELSE "resp_2"

\* the r-th request arrives, while earlier ones may still be served
Arrives(r) ==
    /\ reqs[r].pc = "idle"
    /\ \A q \in 1..(r - 1) : reqs[q].pc # "idle"

GInit ==
    /\ env_file \in EnvFiles
    /\ environ = load_dotenv(<<>>, env_file)
    /\ chat_model = [model |-> IF getenv(environ, "LLM_MODEL_NAME") \in available_models
                               THEN getenv(environ, "LLM_MODEL_NAME")
                               ELSE <<"oca/", "x">>,
                     temperature |-> "0.7"]
    /\ reqs = [r \in 1..NumRequests |-> NoRequest]
    /\ edits = 0
    /\ _response_store \in {EmptyStore, EarlierStore}
    /\ SIdle
    /\ VQuiet
    /\ TQuiet
    /\ CQuiet

\* the configuration file is edited while the gateway runs: one key is set,
\* changed or removed
EditEnv ==
    /\ edits < MaxEdits
    /\ \E file \in EnvFiles :
          /\ Cardinality({k \in EnvKeys : getenv(file, k) # getenv(env_file, k)}) = 1
          /\ env_file' = file
    /\ edits' = edits + 1
    /\ UNCHANGED <<cvars, vvars, tvars, svars, environ, chat_model, reqs>>

\* POST /v1/chat/completions up to the call of the chat model
CreateChatCompletion(r) ==
    /\ Arrives(r)
    /\ \E request \in ChatRequests :
          IF request.model \notin available_models
          THEN /\ reqs' = [reqs EXCEPT ![r] = [request EXCEPT !.pc = "done", !.status = 404]]
               /\ UNCHANGED chat_model
          ELSE /\ chat_model' = [model |-> request.model,
                                 temperature |-> request.temperature]
               /\ reqs' = [reqs EXCEPT ![r] = [request EXCEPT !.pc = "invoking",
                                                             !.resolved = request.model]]
    /\ UNCHANGED <<cvars, vvars, tvars, svars, env_file, environ, edits>>

\* POST /v1/messages up to the call of the chat model (non-streaming) or to
\* the start of the stream generator
CreateMessage(r) ==
    /\ Arrives(r)
    /\ \E request \in MessagesRequests :
          reqs' = [reqs EXCEPT ![r] =
                     IF request.model = <<>>
                     THEN [request EXCEPT !.pc = "done", !.status = 400]
                     ELSE IF request.model \notin available_models
                     THEN [request EXCEPT !.pc = "done", !.status = 404]
                     ELSE [request EXCEPT !.pc = IF request.stream THEN "generator"
                                                 ELSE "invoking",
                                          !.resolved = request.model]]
    /\ UNCHANGED <<cvars, vvars, tvars, svars, env_file, environ, chat_model, edits>>

\* anthropic_stream_generator up to its first yield
AnthropicSetModel(r) ==
    /\ reqs[r].pc = "generator"
    /\ reqs[r].endpoint = "messages"
    /\ chat_model' = [chat_model EXCEPT !.model = reqs[r].resolved]
    /\ reqs' = [reqs EXCEPT ![r].pc = "invoking"]
    /\ UNCHANGED <<cvars, vvars, tvars, svars, env_file, environ, edits>>

\* POST /v1/responses: passthrough when enabled, else create_response up to
\* the call of the chat model or to the start of the stream generator
ResponsesCreate(r) ==
    /\ Arrives(r)
    /\ environ' = load_dotenv(environ, env_file)
    /\ \E request \in ResponsesRequests :
          reqs' = [reqs EXCEPT ![r] =
                     IF is_passthrough_enabled(environ')
                     THEN [request EXCEPT
                              !.pc = "done",
                              !.passthrough = TRUE,
                              !.resolved = resolve_passthrough_model(environ', request.model),
                              !.payload = Payload(
                                  resolve_passthrough_model(environ', request.model),
                                  request.temperature,
                                  resolve_reasoning_effort(environ', request.effort)),
                              !.status = 200]
                     ELSE IF validate_response_request(request, _response_store) # 0
                     THEN [request EXCEPT
                              !.pc = "done",
                              !.status = validate_response_request(request, _response_store)]
                     ELSE IF resolve_model_name(environ', request.model) \notin available_models
                     THEN [request EXCEPT !.pc = "done", !.status = 404]
                     ELSE [request EXCEPT
                              !.pc = IF request.stream THEN "generator" ELSE "invoking",
                              !.resolved = resolve_model_name(environ', request.model)]]
    /\ UNCHANGED <<cvars, vvars, tvars, svars, env_file, chat_model, edits>>

\* response_stream_generator: the model is assigned, then the body raises
\* (see ResponseStreamGenerator); nothing is sent upstream
ResponseSetModel(r) ==
    /\ reqs[r].pc = "generator"
    /\ reqs[r].endpoint = "responses"
    /\ chat_model' = [chat_model EXCEPT !.model = reqs[r].resolved]
    /\ reqs' = [reqs EXCEPT ![r].pc = "done", ![r].status = 200]
    /\ UNCHANGED <<cvars, vvars, tvars, svars, env_file, environ, edits>>

\* chat_model.invoke / astream: _build_payload reads the chat model; the
\* upstream answers (its failures are the matter of SpecStream);
\* create_response stores the answer
Invoke(r) ==
    /\ reqs[r].pc = "invoking"
    /\ reqs' = [reqs EXCEPT
                   ![r].pc = "done",
                   ![r].payload = Payload(chat_model.model, chat_model.temperature, None),
                   ![r].status = 200]
    /\ _response_store' =
          IF reqs[r].endpoint = "responses" /\ reqs[r].store
          THEN store_response(_response_store, ResponseId(r),
                              [status |-> "completed", content |-> <<>>,
                               tool_calls |-> <<>>])
          ELSE _response_store
    /\ UNCHANGED <<cvars, vvars, tvars, sserve, env_file, environ, chat_model, edits>>

GNext ==
    \/ EditEnv
    \/ \E r \in 1..NumRequests : CreateChatCompletion(r)
    \/ \E r \in 1..NumRequests : CreateMessage(r)
    \/ \E r \in 1..NumRequests : AnthropicSetModel(r)
    \/ \E r \in 1..NumRequests : ResponsesCreate(r)
    \/ \E r \in 1..NumRequests : ResponseSetModel(r)
    \/ \E r \in 1..NumRequests : Invoke(r)

SpecGateway == GInit /\ [][GNext]_vars

(***************************************************************************)
(* Request converters (converters/responses_converter.py,                  *)
(* converters/anthropic_request_converter.py) feeding the validator of the *)
(* upstream client.  A text is the sequence of its characters.             *)
(***************************************************************************)
\* "\n".join(text_parts)
RECURSIVE JoinLines(_)
JoinLines(text_parts) ==
    IF text_parts = <<>> THEN <<>>
    ELSE IF Len(text_parts) = 1 THEN text_parts[1]
    ELSE text_parts[1] \o <<"\n">> \o JoinLines(Tail(text_parts))

\* an item of a Responses input.  A message item has a role and a content:
\* a string (structured = FALSE, parts = <<the string>>) or a list of text
\* blocks (parts = their texts).  arguments names the key the arguments
\* object holds.
InputItem(type, role, structured, parts, call_id, name, arguments) ==
    [type |-> type, role |-> role, structured |-> structured, parts |-> parts,
     call_id |-> call_id, name |-> name, arguments |-> arguments]

MessageItem(role, structured, parts) ==
    InputItem("message", role, structured, parts, NoId, "", "")

FunctionCallItem(call_id, name, arguments) ==
    InputItem("function_call", "", FALSE, <<>>, call_id, name, arguments)

FunctionCallOutputItem(call_id) ==
    InputItem("function_call_output", "", FALSE, <<<<"r">>>>, call_id, "", "")

InputItems ==
    {MessageItem("user", FALSE, <<<<"u">>>>),
     MessageItem("assistant", FALSE, <<<<"t">>>>),
     MessageItem("assistant", FALSE, <<<<>>>>),
     MessageItem("assistant", TRUE, <<>>),
     MessageItem("assistant", TRUE, <<<<"t">>>>)}
        \cup {FunctionCallItem(id, "f", "other") : id \in {"a", "b"}}
        \cup {FunctionCallItem("a", "", "cmd"), FunctionCallItem("a", "", "other")}
        \cup {FunctionCallOutputItem(id) : id \in {"a", "b"}}

ResponseInputs == UNION {[1..n -> InputItems] : n \in 0..MaxItems}

\* the function name of a function_call item, inferred from its arguments
\* when it is empty
InferredName(item) ==
    IF item.name # "" THEN item.name
    ELSE IF item.arguments = "cmd" THEN "exec_command"
    ELSE ""

\* the messages one input item is converted to
ItemToMessages(item) ==
    IF item.type = "message"
    THEN LET content == IF item.structured THEN JoinLines(item.parts) ELSE item.parts[1]
         IN IF item.structured /\ item.role = "assistant" /\ content = <<>> THEN <<>>
            ELSE IF item.role = "user" THEN <<HumanMessage(content)>>
            ELSE IF item.role = "assistant" THEN <<AIMessage(content, <<>>)>>
            ELSE IF item.role \in {"system", "developer"} THEN <<SystemMessage(content)>>
            ELSE <<>>
    ELSE IF item.type = "function_call"
    THEN IF InferredName(item) = "" THEN <<>>
         ELSE <<AIMessage(<<>>, <<item.call_id>>)>>
    ELSE <<ToolMessage(item.parts[1], item.call_id)>>

\* response_input_to_langchain_messages on a list of items
RECURSIVE response_input_to_langchain_messages(_)
response_input_to_langchain_messages(items) ==
    IF items = <<>> THEN <<>>
    ELSE ItemToMessages(Head(items)) \o response_input_to_langchain_messages(Tail(items))

\* a content block of an Anthropic message
AnthropicContentBlock(type, text, id) == [type |-> type, text |-> text, id |-> id]

TextBlock == AnthropicContentBlock("text", <<"t">>, NoId)
ToolUseBlock(id) == AnthropicContentBlock("tool_use", <<>>, id)
ToolResultBlock(id) == AnthropicContentBlock("tool_result", <<"r">>, id)

\* an Anthropic message: its content is a string (structured = FALSE) or a
\* list of blocks
AnthropicMessage(role, structured, text, blocks) ==
    [role |-> role, structured |-> structured, text |-> text, blocks |-> blocks]

AnthropicMessages ==
    {AnthropicMessage("user", FALSE, <<"u">>, <<>>),
     AnthropicMessage("user", TRUE, <<>>, <<TextBlock>>),
     AnthropicMessage("user", TRUE, <<>>, <<ToolResultBlock("a")>>),
     AnthropicMessage("user", TRUE, <<>>, <<ToolResultBlock("b")>>),
     AnthropicMessage("user", TRUE, <<>>, <<TextBlock, ToolResultBlock("a")>>),
     AnthropicMessage("user", TRUE, <<>>, <<ToolResultBlock("a"), ToolResultBlock("b")>>),
     AnthropicMessage("assistant", FALSE, <<"t">>, <<>>),
     AnthropicMessage("assistant", TRUE, <<>>, <<TextBlock>>),
     AnthropicMessage("assistant", TRUE, <<>>, <<ToolUseBlock("a")>>),
     AnthropicMessage("assistant", TRUE, <<>>, <<TextBlock, ToolUseBlock("a")>>),
     AnthropicMessage("assistant", TRUE, <<>>, <<ToolUseBlock("a"), ToolUseBlock("b")>>)}

AnthropicHistories == UNION {[1..n -> AnthropicMessages] : n \in 0..MaxHistory}

\* [b for b in content if b.type == type]
RECURSIVE BlocksOfType(_, _)
BlocksOfType(blocks, type) ==
    IF blocks = <<>> THEN <<>>
    ELSE (IF Head(blocks).type = type THEN <<Head(blocks)>> ELSE <<>>)
             \o BlocksOfType(Tail(blocks), type)

\* [b for b in content if b.type != "tool_result"]
RECURSIVE OtherBlocks(_)
OtherBlocks(blocks) ==
    IF blocks = <<>> THEN <<>>
    ELSE (IF Head(blocks).type # "tool_result" THEN <<Head(blocks)>> ELSE <<>>)
             \o OtherBlocks(Tail(blocks))

HasToolResults(msg) ==
    msg.role = "user" /\ msg.structured /\ BlocksOfType(msg.blocks, "tool_result") # <<>>

\* validate_and_fix_anthropic_message_sequence: the look-ahead loop from j
\* with found tool_results of num_tool_uses; gives j, found and valid_sequence
RECURSIVE LookAhead(_, _, _, _)
LookAhead(msgs, j, found, num_tool_uses) ==
    IF j <= Len(msgs) /\ found < num_tool_uses
    THEN IF HasToolResults(msgs[j])
         THEN LookAhead(msgs, j + 1,
                        found + Len(BlocksOfType(msgs[j].blocks, "tool_result")),
                        num_tool_uses)
         ELSE [j |-> j, found |-> found, valid_sequence |-> FALSE]
    ELSE [j |-> j, found |-> found, valid_sequence |-> TRUE]

\* validate_and_fix_anthropic_message_sequence: the loop that skips orphaned
\* tool_result messages from i; gives the index it stops at
RECURSIVE SkipOrphaned(_, _)
SkipOrphaned(msgs, i) ==
    IF i <= Len(msgs) /\ HasToolResults(msgs[i]) THEN SkipOrphaned(msgs, i + 1) ELSE i

\* the texts of a list of blocks
BlockTexts(blocks) == [k \in 1..Len(blocks) |-> blocks[k].text]

\* validate_and_fix_anthropic_message_sequence from index i
RECURSIVE FixFrom(_, _)
FixFrom(msgs, i) ==
    IF i > Len(msgs) THEN <<>>
    ELSE LET msg == msgs[i]
             num_tool_uses == Len(BlocksOfType(msg.blocks, "tool_use"))
             look == LookAhead(msgs, i + 1, 0, num_tool_uses)
             text_blocks == BlocksOfType(msg.blocks, "text")
         IN IF msg.role = "assistant" /\ msg.structured /\ num_tool_uses > 0
            THEN IF look.valid_sequence /\ look.found = num_tool_uses
                 THEN <<msg>> \o SubSeq(msgs, i + 1, look.j - 1) \o FixFrom(msgs, look.j)
                 ELSE (IF text_blocks # <<>>
                       THEN <<AnthropicMessage(msg.role, FALSE,
                                               JoinLines(BlockTexts(text_blocks)), <<>>)>>
                       ELSE <<>>)
                      \o FixFrom(msgs, SkipOrphaned(msgs, i + 1))
            ELSE <<msg>> \o FixFrom(msgs, i + 1)

validate_and_fix_anthropic_message_sequence(msgs) == FixFrom(msgs, 1)

\* the messages one Anthropic message is converted to
AnthropicToMessages(msg) ==
    IF msg.role = "user"
    THEN IF ~msg.structured THEN <<HumanMessage(msg.text)>>
         ELSE LET tool_result_blocks == BlocksOfType(msg.blocks, "tool_result")
                  text_parts == BlockTexts(OtherBlocks(msg.blocks))
              IN (IF text_parts # <<>> THEN <<HumanMessage(JoinLines(text_parts))>>
                  ELSE <<>>)
                 \o [k \in 1..Len(tool_result_blocks) |->
                        ToolMessage(tool_result_blocks[k].text, tool_result_blocks[k].id)]
    ELSE IF ~msg.structured THEN <<AIMessage(msg.text, <<>>)>>
         ELSE LET tool_use_blocks == BlocksOfType(msg.blocks, "tool_use")
              IN <<AIMessage(JoinLines(BlockTexts(BlocksOfType(msg.blocks, "text"))),
                             [k \in 1..Len(tool_use_blocks) |-> tool_use_blocks[k].id])>>

\* anthropic_to_langchain_messages
RECURSIVE anthropic_to_langchain_messages(_)
anthropic_to_langchain_messages(msgs) ==
    IF msgs = <<>> THEN <<>>
    ELSE AnthropicToMessages(Head(msgs)) \o anthropic_to_langchain_messages(Tail(msgs))

CInit ==
    /\ dialect \in {"responses", "anthropic"}
    /\ input_data \in (IF dialect = "responses" THEN ResponseInputs ELSE {<<>>})
    /\ anthropic_messages \in (IF dialect = "anthropic" THEN AnthropicHistories ELSE {<<>>})
    /\ messages = <<>>
    /\ objects = <<>>
    /\ remaining_messages = <<>>
    /\ valid_messages = <<>>
    /\ temp = <<>>
    /\ temp_2 = <<>>
    /\ remaining_ids = {}
    /\ ai_index = 0
    /\ vpc = "convert"
    /\ ncall = 1
    /\ TQuiet
    /\ SQuiet
    /\ GQuiet

\* the converted messages are passed to the chat model, whose _stream and
\* _astream call the validator on them
Validate(lc_messages) ==
    /\ messages' = lc_messages
    /\ objects' = lc_messages
    /\ remaining_messages' = lc_messages
    /\ vpc' = "outer"
    /\ UNCHANGED <<cvars, gvars, tvars, svars, valid_messages, temp, temp_2,
                   remaining_ids, ai_index, ncall>>

\* response_request_to_langchain
ResponseRequestToLangchain ==
    /\ vpc = "convert"
    /\ dialect = "responses"
    /\ Validate(response_input_to_langchain_messages(input_data))

\* anthropic_to_langchain
AnthropicToLangchain ==
    /\ vpc = "convert"
    /\ dialect = "anthropic"
    /\ Validate(anthropic_to_langchain_messages(
                    validate_and_fix_anthropic_message_sequence(anthropic_messages)))

CNext ==
    \/ ResponseRequestToLangchain
    \/ AnthropicToLangchain
    \/ PopClean
    \/ PopOrphan
    \/ PopToolCalls
    \/ CollectTool
    \/ CollectInterrupt
    \/ CollectEnd
    \/ SequenceComplete
    \/ SequenceIncomplete
    \/ Return

SpecConvert == CInit /\ [][CNext]_vars

(***************************************************************************)
(* The invariants of a canonical message sequence (spec section 3).        *)
(***************************************************************************)
HasToolCalls(m) == m.type = "ai" /\ m.tool_calls # <<>>

IsToolResult(m) == m.type = "tool"

\* I1 Pairing: every tool-call id of an assistant message is answered by a
\* later tool-result, with only that assistant's matching tool-results between
I1(s) ==
    \A i \in DOMAIN s : HasToolCalls(s[i]) =>
        \A k \in Range(s[i].tool_calls) :
            \E j \in (i+1)..Len(s) :
                /\ IsToolResult(s[j])
                /\ s[j].tool_call_id = k
                /\ \A m \in (i+1)..(j-1) :
                      IsToolResult(s[m]) /\ s[m].tool_call_id \in Range(s[i].tool_calls)

\* I2 No orphans: every tool-result sits in the region opened by a preceding
\* assistant message whose ids include the tool-result's id
I2(s) ==
    \A j \in DOMAIN s : IsToolResult(s[j]) =>
        \E i \in 1..(j-1) :
            /\ HasToolCalls(s[i])
            /\ s[j].tool_call_id \in Range(s[i].tool_calls)
            /\ \A m \in (i+1)..(j-1) :
                  IsToolResult(s[m]) /\ s[m].tool_call_id \in Range(s[i].tool_calls)

\* I3 Completeness: all tool-call ids of an assistant message are resolved
\* before the next message that is not a tool-result
I3(s) ==
    \A i \in DOMAIN s : HasToolCalls(s[i]) =>
        \A k \in Range(s[i].tool_calls) :
            \E j \in (i+1)..Len(s) :
                /\ IsToolResult(s[j])
                /\ s[j].tool_call_id = k
                /\ \A m \in (i+1)..(j-1) : IsToolResult(s[m])

(***************************************************************************)
(* Input and output of one call, position by position.  The validator      *)
(* drops tool-results only, so the k-th message of the input that is not a *)
(* tool-result is answered by the k-th such message of the output.         *)
(***************************************************************************)
NonToolCount(s, i) == Cardinality({m \in 1..i : ~IsToolResult(s[m])})

\* the position in s of its k-th message that is not a tool-result (0: none)
NonToolPos(s, k) ==
    IF \E p \in DOMAIN s : ~IsToolResult(s[p]) /\ NonToolCount(s, p) = k
    THEN CHOOSE p \in DOMAIN s : ~IsToolResult(s[p]) /\ NonToolCount(s, p) = k
    ELSE 0

\* the position in the output of the message answering input position i
OutPos(i) == NonToolPos(valid_messages, NonToolCount(messages, i))

\* the last position of the run of tool-results that follows position i
RECURSIVE RegionEnd(_, _)
RegionEnd(s, i) ==
    IF i < Len(s) /\ IsToolResult(s[i+1]) THEN RegionEnd(s, i+1) ELSE i

\* a message without its tool calls
Plain(m) == [m EXCEPT !.tool_calls = <<>>]

\* the messages of s that are not tool-results, without their tool calls
RECURSIVE Skeleton(_)
Skeleton(s) ==
    IF s = <<>> THEN <<>>
    ELSE IF IsToolResult(Head(s)) THEN Skeleton(Tail(s))
         ELSE <<Plain(Head(s))>> \o Skeleton(Tail(s))

Done == vpc = "done"

\* C1: the sequence returned by the validator satisfies I1, I2 and I3.
C1_OutputSatisfiesInvariants ==
    Done => I1(valid_messages) /\ I2(valid_messages) /\ I3(valid_messages)

\* C2: an input that already satisfies I1, I2 and I3 is returned unchanged.
C2_ValidInputUnchanged ==
    (Done /\ I1(messages) /\ I2(messages) /\ I3(messages)) => valid_messages = messages

\* C3: the validator applied to its own result returns that result unchanged.
C3_Idempotent ==
    (Done /\ ncall = 2) => valid_messages = messages

\* the second call has returned a list that holds a trimmed tool-call group:
\* an assistant message with one tool call left, its result, a later message
C3_Witness ==
    /\ Done
    /\ ncall = 2
    /\ Len(valid_messages) >= 3
    /\ \E i \in 1..(Len(valid_messages) - 2) :
          /\ HasToolCalls(valid_messages[i])
          /\ IsToolResult(valid_messages[i+1])
          /\ ~IsToolResult(valid_messages[i+2])

\* the tool calls of tcs whose id is in ids, in their original order
RECURSIVE KeepCalls(_, _)
KeepCalls(tcs, ids) ==
    IF tcs = <<>> THEN <<>>
    ELSE IF Head(tcs) \in ids
         THEN <<Head(tcs)>> \o KeepCalls(Tail(tcs), ids)
         ELSE KeepCalls(Tail(tcs), ids)

\* the ids of the assistant message at i that a tool-result of its region answers
AnsweredIds(s, i) ==
    {k \in Range(s[i].tool_calls) :
        \E j \in (i+1)..RegionEnd(s, i) : s[j].tool_call_id = k}

\* the tool-results at j..e that answer an id of pending, the first one for each id
RECURSIVE MatchedResults(_, _, _, _)
MatchedResults(s, j, e, pending) ==
    IF j > e THEN <<>>
    ELSE IF s[j].tool_call_id \in pending
         THEN <<s[j]>> \o MatchedResults(s, j+1, e, pending \ {s[j].tool_call_id})
         ELSE MatchedResults(s, j+1, e, pending)

\* the assistant message at i has tool calls and is directly followed by a
\* message that is not a tool-result
Interrupted(s, i) ==
    /\ i < Len(s)
    /\ HasToolCalls(s[i])
    /\ ~IsToolResult(s[i+1])

\* C4: an assistant message with tool calls that is directly followed by a
\* non-tool-result message comes out as a plain assistant message with its
\* text, the interrupting and all later non-tool messages keep their order,
\* and no later tool-result for one of its ids is in the output.
C4_InterruptedIsDemoted ==
    Done => \A i \in DOMAIN messages : Interrupted(messages, i) =>
        LET p == OutPos(i) IN
            /\ p # 0
            /\ valid_messages[p] = AIMessage(messages[i].content, <<>>)
            /\ Skeleton(SubSeq(valid_messages, p, Len(valid_messages)))
                   = Skeleton(SubSeq(messages, i, Len(messages)))
            /\ \A q \in (p+1)..Len(valid_messages) :
                   IsToolResult(valid_messages[q]) =>
                       valid_messages[q].tool_call_id \notin Range(messages[i].tool_calls)

\* only some of the ids of the assistant message at i are answered in its region
PartlyAnswered(s, i) ==
    /\ HasToolCalls(s[i])
    /\ AnsweredIds(s, i) # {}
    /\ AnsweredIds(s, i) # Range(s[i].tool_calls)

\* C5: when only some ids of an assistant message are answered, the output
\* assistant message carries exactly the answered tool calls in their
\* original order and is followed by exactly the matched tool-results.
C5_PartialKeepsAnswered ==
    Done => \A i \in DOMAIN messages : PartlyAnswered(messages, i) =>
        LET p == OutPos(i) IN
            /\ p # 0
            /\ valid_messages[p] =
                   AIMessage(messages[i].content,
                             KeepCalls(messages[i].tool_calls, AnsweredIds(messages, i)))
            /\ SubSeq(valid_messages, p+1, RegionEnd(valid_messages, p)) =
                   MatchedResults(messages, i+1, RegionEnd(messages, i),
                                  Range(messages[i].tool_calls))

(***************************************************************************)
(* Claims about the token manager.                                         *)
(***************************************************************************)
RefreshInFlight == {c \in Callers : call[c].op = "get_access_token" /\ InFlight(c)}

\* C6: within one process at most one token-refresh request is in flight
\* at any time.
C6_SingleFlightRefresh == Cardinality(RefreshInFlight) <= 1

Writing(c) == call[c].pc \in {"write_access", "write_expiry", "write_refresh"}

\* C7: while a refresh writes its tokens, the configuration file holds
\* either all of the old values or all of the new values, never a mixture.
C7_FileAllOldOrAllNew ==
    \A c \in Callers : Writing(c) => dotenv \in {call[c].file_before, call[c].file_new}

OtherMode(mode) == IF mode = "direct" THEN "proxy" ELSE "direct"

\* the step in which caller c handles a transport error of its first attempt
\* in a call made with retry enabled
FirstTransportErrorWithRetry(c) ==
    /\ call[c].pc \in {"attempt1", "stream1"}
    /\ call[c].do_retry
    /\ call[c].first_error = "none"
    /\ call'[c].first_error = "transport"

\* a call is never in a third attempt
NoThirdAttempt(c) ==
    call[c].pc \in {"attempt2", "stream2"} =>
        /\ call'[c].pc \in {"attempt2", "stream2", "done"}
        /\ call'[c].attempts = call[c].attempts

C9_RefreshFailsOverToProxy ==
    \A c \in Callers :
        ( /\ call[c].pc = "done"
          /\ call[c].op = "get_access_token"
          /\ call[c].first_error = "transport"
          /\ call[c].attempts[1] = "direct"
          /\ proxy_url )
        => /\ call[c].attempts = <<"direct", "proxy">>
           /\ call[c].mode_set = "proxy"

\* C10: an HTTP error status on the first attempt is reported to the caller
\* as an HTTP error, without a second attempt and without flipping
\* connection_mode.
C10_HttpErrorNoFailover ==
    \A c \in Callers :
        (call[c].pc = "done" /\ call[c].first_error = "http")
        => /\ call[c].result = "HTTPStatusError"
           /\ Len(call[c].attempts) = 1
           /\ call[c].mode_set = "none"

\* the step in which get_access_token returns a token to caller c
ReturnsToken(c) ==
    /\ call[c].pc # "done"
    /\ call'[c].pc = "done"
    /\ call'[c].op = "get_access_token"
    /\ call'[c].result = "ok"

\* C11: every token get_access_token returns is valid at the moment it is
\* returned: the expires_at the manager holds is strictly later than now,
\* whether the token came from the cache or from a refresh.
C11_ReturnedTokenIsValid ==
    [][\A c \in Callers :
          ReturnsToken(c) => (expires_at' # NoTime /\ now' < expires_at')]_vars

\* C20: once a streaming response has been opened, a failure of that stream
\* never starts another upstream attempt of the same call, and on_open runs
\* at most once per call.
C20_NoRetryAfterOpen ==
    [][\A c \in Callers :
          /\ Streaming(c) => /\ call'[c].pc \in {call[c].pc, "done"}
                             /\ call'[c].attempts = call[c].attempts
          /\ call'[c].op = "stream" => call'[c].opens <= 1]_vars

(***************************************************************************)
(* Claims about the upstream client and the emitters.                      *)
(***************************************************************************)
ServedWithoutError == spc = "done" /\ ~failed

\* the partial tool-call records of a stream, in arrival order
RECURSIVE AllToolCallDeltas(_)
AllToolCallDeltas(s) ==
    IF s = <<>> THEN <<>> ELSE ToolCallsDelta(Head(s)) \o AllToolCallDeltas(Tail(s))

\* the tool call a partial record is for: its index, else its id, else index 0
CallOf(tc) ==
    CASE tc.index # NoIndex -> [kind |-> "i", index |-> tc.index, id |-> None]
      [] tc.index = NoIndex /\ tc.id # None -> [kind |-> "id", index |-> NoIndex, id |-> tc.id]
      [] OTHER -> [kind |-> "i", index |-> 0, id |-> None]

\* the arguments fragments received for one tool call, concatenated
RECURSIVE Fragments(_, _)
Fragments(tcs, c) ==
    IF tcs = <<>> THEN <<>>
    ELSE (IF CallOf(Head(tcs)) = c THEN Head(tcs).arguments ELSE <<>>)
         \o Fragments(Tail(tcs), c)

\* C12: the sealed tool calls are the tool calls of the upstream stream, one
\* each, and the arguments of each are the concatenation, in arrival order,
\* of the arguments fragments received for it.
C12_SealedArgumentsAreFragments ==
    (ServedWithoutError /\ endpoint \in NonStreaming) =>
        LET tcs == AllToolCallDeltas(upstream)
            calls == {CallOf(tcs[i]) : i \in DOMAIN tcs}
        IN /\ Len(api_response.tool_calls) = Cardinality(calls)
           /\ {order[i] : i \in DOMAIN order} = calls
           /\ \A i \in DOMAIN order :
                  api_response.tool_calls[i].arguments = Fragments(tcs, order[i])

\* two tool calls are sealed, one of them from several fragments
C12_Witness ==
    /\ ServedWithoutError
    /\ endpoint \in NonStreaming
    /\ Len(api_response.tool_calls) = 2
    /\ \E i \in DOMAIN api_response.tool_calls :
           Len(api_response.tool_calls[i].arguments) = 2

\* the texts of the events of one kind, concatenated in emission order
RECURSIVE EmittedText(_, _)
EmittedText(evs, kind) ==
    IF evs = <<>> THEN <<>>
    ELSE (IF Head(evs).kind = kind THEN Head(evs).text ELSE <<>>)
         \o EmittedText(Tail(evs), kind)

\* the text of the content blocks of a non-streaming response
RECURSIVE BlocksText(_)
BlocksText(blocks) ==
    IF blocks = <<>> THEN <<>> ELSE Head(blocks).text \o BlocksText(Tail(blocks))

\* C13: the text deltas of a stream (text_delta of the Anthropic stream,
\* output_text.delta of the Responses stream), concatenated in emission
\* order, are the content text of the non-streaming response to the same
\* upstream deltas.
C13_StreamTextIsResponseText ==
    /\ (ServedWithoutError /\ endpoint = "messages_stream") =>
           EmittedText(events, "text_delta")
               = BlocksText(ContentBlocks(GenerateContent(upstream)))
    /\ (spc = "done" /\ ~failed /\ endpoint = "responses_stream") =>
           EmittedText(events, "output_text.delta")
               = BlocksText(ContentBlocks(GenerateContent(upstream)))

\* position of the first event of s after position 1 that is not a
\* content_block_delta (Len(s) + 1 if there is none)
BlockEnd(s) ==
    IF \E k \in 2..Len(s) : s[k].type # "content_block_delta"
    THEN CHOOSE k \in 2..Len(s) :
             /\ s[k].type # "content_block_delta"
             /\ \A j \in 2..(k-1) : s[j].type = "content_block_delta"
    ELSE Len(s) + 1

\* s is a sequence of content blocks, each a content_block_start, one or
\* more content_block_delta and a content_block_stop of one index
RECURSIVE ContentBlockSequence(_)
ContentBlockSequence(s) ==
    \/ s = <<>>
    \/ LET k == BlockEnd(s)
       IN /\ s[1].type = "content_block_start"
          /\ k >= 3
          /\ k <= Len(s)
          /\ s[k].type = "content_block_stop"
          /\ \A j \in 2..k : s[j].index = s[1].index
          /\ ContentBlockSequence(SubSeq(s, k + 1, Len(s)))

\* C14: an Anthropic stream that completes without error is message_start,
\* a sequence of content blocks (start, one or more deltas, stop, nothing of
\* another block in between), message_delta, message_stop.
C14_AnthropicStreamGrammar ==
    (ServedWithoutError /\ endpoint = "messages_stream") =>
        /\ Len(events) >= 3
        /\ events[1].type = "message_start"
        /\ events[Len(events) - 1].type = "message_delta"
        /\ events[Len(events)].type = "message_stop"
        /\ ContentBlockSequence(SubSeq(events, 2, Len(events) - 2))

EventsOf(type, kind) == {i \in DOMAIN events : events[i].type = type /\ events[i].kind = kind}

\* C15: a Responses stream that completes without error starts with
\* response.created and output_item.added for the message, ends with
\* response.completed, and has exactly one output_item.done for the message,
\* after every text delta and before every function_call item.
C15_ResponsesStreamGrammar ==
    (spc = "done" /\ endpoint = "responses_stream" /\ failed = FALSE) =>
        /\ Len(events) >= 4
        /\ events[1].type = "response.created"
        /\ events[2].type = "response.output_item.added" /\ events[2].kind = "message"
        /\ events[Len(events)].type = "response.completed"
        /\ Cardinality(EventsOf("response.output_item.done", "message")) = 1
        /\ \A d \in EventsOf("response.output_item.done", "message") :
              /\ \A t \in DOMAIN events :
                     events[t].type = "response.output_text.delta" => t < d
              /\ \A a \in EventsOf("response.output_item.added", "function_call") : d < a

\* C16: every event of a Responses stream carries a sequence_number, and
\* the numbers are strictly increasing in emission order.
C16_SequenceNumbersIncrease ==
    endpoint = "responses_stream" =>
        \A i \in DOMAIN events :
            /\ "sequence_number" \in DOMAIN events[i]
            /\ i > 1 => events[i-1].sequence_number < events[i].sequence_number

\* C17: when the upstream fails in a Chat Completions stream, the client
\* gets exactly one data frame with an error object and then data: [DONE]
\* as the last frame.
C17_ChatErrorThenDone ==
    (spc = "done" /\ endpoint = "chat_stream" /\ failed) =>
        /\ Cardinality(EventsOf("data", "error")) = 1
        /\ Len(events) >= 2
        /\ events[Len(events) - 1].kind = "error"
        /\ events[Len(events)].type = "[DONE]"

\* C18: a Responses stream that fails ends with response.failed followed
\* by an error event.
C18_ResponsesFailedThenError ==
    (spc = "done" /\ endpoint = "responses_stream"
        /\ \E i \in DOMAIN events : events[i].type = "error") =>
        /\ Len(events) >= 2
        /\ events[Len(events) - 1].type = "response.failed"
        /\ events[Len(events)].type = "error"

\* C19: a Responses request whose upstream call fails, or whose stream ends
\* in an error event, leaves the response store as it was.
C19_FailureLeavesStore ==
    /\ (endpoint = "responses" /\ failed) => _response_store = store_before
    /\ (endpoint = "responses_stream" /\ spc = "done") => _response_store = store_before

\* a non-streaming Responses request with store set fails in the middle of
\* the reply while the store holds an earlier response
C19_Witness ==
    /\ endpoint = "responses"
    /\ failed
    /\ request_store
    /\ pos >= 1
    /\ DOMAIN store_before # {}

\* C26: the validator never modifies its input: the caller's message objects
\* are, during and after the call, as they were passed.
C26_InputNotModified == objects = messages

\* C25: an Anthropic reply served without error, streamed or not, reports
\* stop_reason tool_use exactly when it holds at least one tool_use content
\* block, and end_turn otherwise.
C25_StopReasonIffToolUseBlock ==
    /\ (endpoint = "messages_stream" /\ ServedWithoutError) =>
          /\ EventsOf("message_delta", "tool_use") # {}
                <=> EventsOf("content_block_start", "tool_use") # {}
          /\ EventsOf("message_delta", "end_turn") # {}
                <=> EventsOf("content_block_start", "tool_use") = {}
    /\ (endpoint = "messages" /\ ServedWithoutError) =>
          /\ stop_reason = "tool_use" <=> api_response.tool_calls # <<>>
          /\ stop_reason = "end_turn" <=> api_response.tool_calls = <<>>

\* C21: after a Responses request with storing enabled is served without
\* error, streaming or not, the store's entry under its response id holds the
\* final output delivered to the client: the message text and the function
\* calls.
C21_StoredOutputIsDelivered ==
    (endpoint \in {"responses", "responses_stream"} /\ ServedWithoutError
        /\ request_store) =>
        /\ "resp_new" \in DOMAIN _response_store
        /\ endpoint = "responses" => _response_store["resp_new"] = api_response

(***************************************************************************)
(* Claims about the request handlers.                                      *)
(***************************************************************************)
\* the r-th request arrives in this step at POST /v1/responses and fails
\* validation: its model is missing or empty, or it names a previous response
\* that is not in the store
FailsValidation(r) ==
    /\ reqs[r].pc = "idle"
    /\ reqs'[r].endpoint = "responses"
    /\ \/ reqs'[r].model = <<>>
       \/ /\ reqs'[r].previous_response_id # None
          /\ reqs'[r].previous_response_id \notin DOMAIN _response_store

\* the r-th request is answered 4xx in this step: nothing was sent upstream,
\* nothing will be, and the store is as it was
Rejected(r) ==
    /\ reqs'[r].status \in 400..499
    /\ reqs'[r].pc = "done"
    /\ ~reqs'[r].payload.sent
    /\ _response_store' = _response_store

\* C22 as stated: a Responses request that fails validation is rejected with
\* a 4xx status before any upstream call and without changing the store.
C22_InvalidRejected ==
    [][\A r \in 1..NumRequests : FailsValidation(r) => Rejected(r)]_vars

\* C22: a Responses request that fails validation while no passthrough URL is
\* configured is rejected with a 4xx status before any upstream call and
\* without changing the store.
C22_InvalidRejectedInConversionMode ==
    [][\A r \in 1..NumRequests :
          (FailsValidation(r) /\ ~is_passthrough_enabled(environ')) => Rejected(r)]_vars

\* a request naming a previous response that is not in the store was answered
\* 404 in conversion mode
C22_Witness ==
    \E r \in 1..NumRequests :
        /\ reqs[r].endpoint = "responses"
        /\ ~reqs[r].passthrough
        /\ reqs[r].model # <<>>
        /\ reqs[r].previous_response_id = "resp_0"
        /\ "resp_0" \notin DOMAIN _response_store
        /\ reqs[r].status = 404

\* C23: the model and the reasoning effort of a Responses request are
\* resolved from the configuration file as it is when the request arrives: a
\* key that was changed gives its new value, a key that was removed gives
\* the incoming value.
C23_ResolutionReadsFileAtRequest ==
    [][\A r \in 1..NumRequests :
          (reqs[r].pc = "idle" /\ reqs'[r].endpoint = "responses") =>
             /\ reqs'[r].passthrough =>
                   /\ reqs'[r].payload.model
                         = resolve_passthrough_model(env_file, reqs'[r].model)
                   /\ reqs'[r].payload.effort
                         = resolve_reasoning_effort(env_file, reqs'[r].effort)
             /\ reqs'[r].pc \in {"generator", "invoking"} =>
                   reqs'[r].resolved = resolve_model_name(env_file, reqs'[r].model)]_vars

\* C24: a Responses request whose model name starts with oca/ is sent
\* upstream with that name, whatever default is configured, in the converting
\* path and in passthrough.
C24_OcaModelSentUnchanged ==
    \A r \in 1..NumRequests :
        (reqs[r].endpoint = "responses" /\ StartsWithOca(reqs[r].model)
            /\ reqs[r].payload.sent) =>
            reqs[r].payload.model = reqs[r].model

\* C28: the payload sent upstream through the chat model for a request names
\* the model, and the temperature, that this request asked for.
C28_PayloadIsOfThisRequest ==
    \A r \in 1..NumRequests :
        (reqs[r].payload.sent /\ ~reqs[r].passthrough) =>
            /\ reqs[r].payload.model = reqs[r].resolved
            /\ reqs[r].temperature # None =>
                  reqs[r].payload.temperature = reqs[r].temperature

(***************************************************************************)
(* Claims about the request converters.                                    *)
(***************************************************************************)
ItemsOfType(items, type) == {i \in DOMAIN items : items[i].type = type}

AssistantItems(items) ==
    {i \in ItemsOfType(items, "message") : items[i].role = "assistant"}

MessagesOfType(msgs, type) == {k \in DOMAIN msgs : msgs[k].type = type}

\* C27: an assistant message item of a Responses input is dropped by the
\* conversion only when the input holds a function_call item; an input
\* without function_call items keeps every assistant message item, with or
\* without text.
C27_TextlessAssistantKept ==
    (dialect = "responses" /\ vpc # "convert"
        /\ ItemsOfType(input_data, "function_call") = {}) =>
        Cardinality(MessagesOfType(messages, "ai"))
            = Cardinality(AssistantItems(input_data))

\* every function_call item has a name and a call_id of its own and is
\* answered by a later function_call_output item with that call_id, with
\* calls and outputs only in between; every output answers a call
AnsweredCalls(items) ==
    LET calls == ItemsOfType(items, "function_call")
        outputs == ItemsOfType(items, "function_call_output")
    IN /\ calls # {}
       /\ \A i \in calls : items[i].name # ""
       /\ \A i, j \in calls : i # j => items[i].call_id # items[j].call_id
       /\ \A i, j \in outputs : i # j => items[i].call_id # items[j].call_id
       /\ \A i \in calls : \E j \in outputs :
             /\ j > i
             /\ items[j].call_id = items[i].call_id
             /\ \A k \in (i + 1)..(j - 1) : items[k].type # "message"
       /\ \A j \in outputs : \E i \in calls :
             i < j /\ items[i].call_id = items[j].call_id

\* the validated messages hold a tool call with this id, and a tool result
\* answering it
CallAndResultPresent(id) ==
    /\ \E k \in MessagesOfType(valid_messages, "ai") :
          id \in Range(valid_messages[k].tool_calls)
    /\ \E k \in MessagesOfType(valid_messages, "tool") :
          valid_messages[k].tool_call_id = id

\* C29: a Responses input in which every function_call item is answered by
\* a function_call_output item with the same call_id, parallel calls before
\* their outputs included, reaches the upstream request with every call and
\* every output present.
C29_AnsweredCallsReachUpstream ==
    (dialect = "responses" /\ Done /\ AnsweredCalls(input_data)) =>
        \A i \in ItemsOfType(input_data, "function_call") :
            CallAndResultPresent(input_data[i].call_id)

BlockIds(msg, type) ==
    {msg.blocks[k].id : k \in {n \in DOMAIN msg.blocks : msg.blocks[n].type = type}}

\* every assistant message with tool_use blocks is followed by a user message
\* whose tool_result blocks answer exactly its tool_use blocks, and every
\* tool_result block is in such a message
AnsweredToolUses(msgs) ==
    /\ \E i \in DOMAIN msgs : BlockIds(msgs[i], "tool_use") # {}
    /\ \A i \in DOMAIN msgs :
          BlockIds(msgs[i], "tool_use") # {} =>
             /\ i + 1 <= Len(msgs)
             /\ msgs[i + 1].role = "user"
             /\ BlockIds(msgs[i + 1], "tool_result") = BlockIds(msgs[i], "tool_use")
    /\ \A i \in DOMAIN msgs :
          BlockIds(msgs[i], "tool_result") # {} =>
             /\ i > 1
             /\ msgs[i - 1].role = "assistant"
             /\ BlockIds(msgs[i - 1], "tool_use") = BlockIds(msgs[i], "tool_result")

\* C30: an Anthropic history in which each assistant tool_use block is
\* answered by a tool_result block in the next user message reaches the
\* upstream request with every tool call and every tool result intact, also
\* when that user message holds text blocks.
C30_AnsweredToolUsesReachUpstream ==
    (dialect = "anthropic" /\ Done /\ AnsweredToolUses(anthropic_messages)) =>
        \A i \in DOMAIN anthropic_messages :
            \A id \in BlockIds(anthropic_messages[i], "tool_use") :
                CallAndResultPresent(id)

(***************************************************************************)
(* Claims about what the validator keeps.                                  *)
(***************************************************************************)
\* a User, System or Assistant-plain message
IsClean(m) == ~IsToolResult(m) /\ ~HasToolCalls(m)

\* C31: every User, System and Assistant-plain message of the input appears
\* exactly once in the validator's output and in the input's order: the
\* messages of the output that are not tool-results answer those of the
\* input one for one, and a clean message is answered by itself.
C31_CleanMessagesKeptInOrder ==
    Done =>
        /\ Skeleton(valid_messages) = Skeleton(messages)
        /\ \A i \in DOMAIN messages : IsClean(messages[i]) =>
               /\ OutPos(i) # 0
               /\ valid_messages[OutPos(i)] = messages[i]

\* the first call has returned, and its input held a tool-call group that a
\* clean message interrupts, with a tool-result and a clean message behind it
C31_Witness ==
    /\ Done
    /\ ncall = 1
    /\ \E i \in DOMAIN messages :
          /\ Interrupted(messages, i)
          /\ IsClean(messages[i+1])
          /\ \E j \in (i+2)..Len(messages) : IsToolResult(messages[j])
          /\ \E j \in (i+2)..Len(messages) : IsClean(messages[j])

(***************************************************************************)
(* Claims about the content blocks of an Anthropic stream.                 *)
(***************************************************************************)
\* the number of content_block_start events before position i
StartsBefore(i) ==
    Cardinality({j \in 1..(i - 1) : events[j].type = "content_block_start"})

\* C32: in an Anthropic stream the k-th content_block_start (k = 0, 1, ...)
\* carries index k, so no two content blocks share an index.
C32_BlockStartIndexIsItsRank ==
    endpoint = "messages_stream" =>
        \A i \in DOMAIN events :
            events[i].type = "content_block_start" => events[i].index = StartsBefore(i)

\* the partial_json values of the input_json_delta events of one content
\* block, concatenated in emission order
RECURSIVE PartialJson(_, _)
PartialJson(evs, index) ==
    IF evs = <<>> THEN <<>>
    ELSE (IF Head(evs).kind = "input_json_delta" /\ Head(evs).index = index
          THEN Head(evs).text ELSE <<>>)
         \o PartialJson(Tail(evs), index)

\* the arguments fragments received under one upstream index, concatenated
RECURSIVE FragmentsOfIndex(_, _)
FragmentsOfIndex(tcs, tc_index) ==
    IF tcs = <<>> THEN <<>>
    ELSE (IF TcIndex(Head(tcs)) = tc_index THEN Head(tcs).arguments ELSE <<>>)
         \o FragmentsOfIndex(Tail(tcs), tc_index)

\* C33: for each tool call of an Anthropic stream, the partial_json values of
\* its input_json_delta events concatenate to all the arguments fragments
\* received upstream for it, those received before its id and name included.
C33_PartialJsonIsAllFragments ==
    (ServedWithoutError /\ endpoint = "messages_stream") =>
        \A tc_index \in DOMAIN tool_states :
            tool_states[tc_index].started =>
                PartialJson(events, tool_states[tc_index].block_index)
                    = FragmentsOfIndex(AllToolCallDeltas(upstream), tc_index)

(***************************************************************************)
(* Claims about the sealed tool calls.                                     *)
(***************************************************************************)
\* the first value of a field (id or name) that is not None among the
\* partial records received for one builder key; None when there is none
RECURSIVE FirstNonEmpty(_, _, _)
FirstNonEmpty(tcs, key, field) ==
    IF tcs = <<>> THEN None
    ELSE IF Key(Head(tcs)) = key /\ Head(tcs)[field] # None THEN Head(tcs)[field]
    ELSE FirstNonEmpty(Tail(tcs), key, field)

\* C34: in the sealed tool-call list each record's id and function.name are
\* the first non-empty id and the first non-empty name received for its
\* builder key; later non-empty values do not replace them.
C34_FirstIdAndNameWin ==
    (ServedWithoutError /\ endpoint \in NonStreaming) =>
        \A i \in DOMAIN order :
            /\ api_response.tool_calls[i].id
                   = FirstNonEmpty(AllToolCallDeltas(upstream), order[i], "id")
            /\ api_response.tool_calls[i].name
                   = FirstNonEmpty(AllToolCallDeltas(upstream), order[i], "name")

(***************************************************************************)
(* Claims about the function calls of a Responses stream.                  *)
(***************************************************************************)
\* the upstream indices under which a stream holds partial tool-call records
UpstreamIndices(s) ==
    {TcIndex(AllToolCallDeltas(s)[i]) : i \in DOMAIN AllToolCallDeltas(s)}

\* C35: a Responses stream that is served reports every upstream tool call in
\* an output_item.done event for a function_call item that carries the full
\* concatenation of its argument fragments, and ends with response.completed.
C35_FunctionCallItemIsUpstreamCall ==
    (ServedWithoutError /\ endpoint = "responses_stream") =>
        /\ events # <<>>
        /\ events[Len(events)].type = "response.completed"
        /\ \A tc_index \in UpstreamIndices(upstream) :
              \E d \in EventsOf("response.output_item.done", "function_call") :
                  events[d].text = FragmentsOfIndex(AllToolCallDeltas(upstream), tc_index)

SendsRefresh(c) ==
    /\ call[c].op = "get_access_token"
    /\ call[c].pc = "begin"
    /\ call'[c].pc = "attempt1"

\* C36: no refresh request is sent with a refresh_token that an earlier
\* completed refresh has replaced by a rotated one: the token a request is
\* sent with is the one the file holds when it is sent.  (The write of the
\* rotated token is the last statement of a refresh.)
C36_NoReplacedRefreshTokenSent ==
    [][\A c \in Callers :
          SendsRefresh(c) => call[c].current_refresh_token = dotenv.refresh_token]_vars

\* caller c makes a transport attempt in this step: the first attempt of a
\* call or the retry attempt
MakesAttempt(c) == Len(call'[c].attempts) > Len(call[c].attempts)

\* C37: while the force-proxy flag is set and a proxy URL is configured, no
\* transport attempt of any call is made in DIRECT mode, the retry attempt
\* after a failed proxy attempt included.
C37_ForcedProxyNeverDirect ==
    [][\A c \in Callers :
          (MakesAttempt(c) /\ force_proxy /\ proxy_url) =>
              call'[c].attempts[Len(call'[c].attempts)] = "proxy"]_vars

(***************************************************************************)
(* Claims about the text of an Anthropic history.                          *)
(***************************************************************************)
\* the texts written by the user in an Anthropic history, message by
\* message: the string content, or the text blocks of the content list
RECURSIVE UserTexts(_)
UserTexts(msgs) ==
    IF msgs = <<>> THEN <<>>
    ELSE LET msg == Head(msgs)
             texts == BlockTexts(BlocksOfType(msg.blocks, "text"))
         IN (IF msg.role # "user" THEN <<>>
             ELSE IF ~msg.structured THEN <<msg.text>>
             ELSE IF texts # <<>> THEN <<JoinLines(texts)>>
             ELSE <<>>)
            \o UserTexts(Tail(msgs))

\* the contents of the User messages of a canonical sequence
RECURSIVE HumanContents(_)
HumanContents(s) ==
    IF s = <<>> THEN <<>>
    ELSE (IF Head(s).type = "human" THEN <<Head(s).content>> ELSE <<>>)
         \o HumanContents(Tail(s))

\* C39: repairing an Anthropic history never discards text written by the
\* user: the text of every user message of the request is in the canonical
\* sequence produced from it, also when the message carries tool_result
\* blocks of a tool-use group that is repaired.
C39_UserTextKept ==
    (Done /\ dialect = "anthropic") =>
        HumanContents(valid_messages) = UserTexts(anthropic_messages)

(***************************************************************************)
(* Streamed and non-streaming Anthropic replies to the same upstream.      *)
(***************************************************************************)
\* the positions of the content_block_start events of tool_use blocks
ToolUseStarts == EventsOf("content_block_start", "tool_use")

\* the position of the k-th tool_use block start (k = 1, 2, ...)
ToolUseStart(k) ==
    CHOOSE i \in ToolUseStarts : Cardinality({j \in ToolUseStarts : j <= i}) = k

\* the tool states whose block was started under a content-block index
StartedAt(index) ==
    {tc_index \in DOMAIN tool_states :
        tool_states[tc_index].started /\ tool_states[tc_index].block_index = index}

\* C40: for the same upstream deltas the tool_use blocks of the streamed
\* Anthropic reply are the tool calls of the non-streaming reply, in the same
\* order and number, each with the same id, name and arguments text.
C40_StreamedToolUseIsNonStreaming ==
    (ServedWithoutError /\ endpoint = "messages_stream") =>
        LET blocks == ToolUseBlocks(GenerateToolCalls(upstream)) IN
            /\ Cardinality(ToolUseStarts) = Len(blocks)
            /\ \A k \in DOMAIN blocks :
                  \E tc_index \in StartedAt(events[ToolUseStart(k)].index) :
                      /\ tool_states[tc_index].id = blocks[k].id
                      /\ tool_states[tc_index].name = blocks[k].name
                      /\ tool_states[tc_index].arguments_buffer = blocks[k].arguments

====
